---- MODULE Spec2Model ----
(***************************************************************************)
(* A model of the glue compiler of the Zeek Spicy plugin                   *)
(* (src/compiler/glue-compiler.cc): the .evt chunk scanner, the            *)
(* conditional preprocessor, the token extractors, the declaration store,  *)
(* the event resolver, the Zeek type visitor and compile().                *)
(*                                                                         *)
(* Text is modelled as sequences of one-character strings. Each component  *)
(* has its own group of variables and its own specification; the groups of *)
(* the other components stay at their idle values.                         *)
(***************************************************************************)
EXTENDS Integers, Sequences, FiniteSets, Bags, TLC

VARIABLES
    \* ---- chunk scanner, GlueCompiler::getNextEvtBlock
    input,        \* the characters of the stream `in`
    inpos,        \* number of characters already read from the stream
    state,        \* enum State { Default, InComment, InString }
    prev,         \* char prev
    chunk,        \* std::string chunk
    lineno,       \* *lineno
    blockResult   \* what the call returned, or "running"

VARIABLES
    \* ---- conditional preprocessor, GlueCompiler::preprocessEvtFile
    ppIn,         \* the stream `in`: text tokens and NEWLINE
    ppPos,        \* number of tokens std::getline has consumed
    ppOut,        \* the stream `out`
    ppStack,      \* the nesting of @if of hilti::util::SourceCodePreprocessor
    ppLineno,     \* int lineno
    ppStatus,     \* "running", "done" (returned) or "error" (ParseError thrown)
    ppSeen,       \* history: per line read, the line and pp.state() before it
    zeek_version  \* GlueCompiler::_zeek_version

VARIABLES
    \* ---- port extractor, extract_ports
    portChunk,    \* const std::string& chunk, as tokens
    portI,        \* size_t* i, the index of the next token (from 1)
    portPc,       \* "start", "loop", "returned" or "error" (ParseError thrown)
    portStart,    \* hilti::rt::Port start
    portEnd,      \* std::optional<hilti::rt::Port> end
    portCounter,  \* the loop variable `port`, a uint16_t
    portResult,   \* std::vector<hilti::rt::Port> result
    portErr       \* the message of the ParseError

VARIABLES
    \* ---- identifier extractor, extract_id, and the event it names
    idChunk,      \* const std::string& chunk, as characters
    idI,          \* size_t* i, the index of the next character (from 1)
    idPc,         \* "start", "extracted", "error", "resolved" or "failed"
    idOut,        \* the hilti::ID returned
    idEv          \* the glue::Event whose path is the identifier

VARIABLES
    \* ---- declaration store, GlueCompiler
    protocol_analyzers,  \* _protocol_analyzers
    file_analyzers,      \* _file_analyzers
    packet_analyzers,    \* _packet_analyzers
    events,              \* _events
    imports,             \* _imports
    exports,             \* _exports
    spicy_modules,       \* _spicy_modules: id -> glue::SpicyModule
    locations,           \* _locations
    loaded               \* history: per loadEvtFile call, the file and what it returned

VARIABLES
    \* ---- the driver and GlueCompiler::compile
    driver,        \* hiltiOptions().debug and types(true) of the Driver
    inputs,        \* the units handed to Driver::addInput, in order
    pc,            \* the position in compile(): "idle" before the call
    init_module,   \* hilti::Module init_module: its declarations
    preinit_body,  \* the statements of preinit_body
    typeIdx,       \* the position of the loop over _driver->types(true)
    log,           \* the messages given to hilti::logger().error
    compiled       \* what compile() returned: "none", "true", "false" or "abort"

VARIABLES
    \* ---- VisitorZeekType
    visStack,      \* the calls of createZeekType in progress, innermost last
    zeek_types,    \* std::set<hilti::ID> zeek_types
    visId,         \* std::optional<hilti::ID> id
    visRet,        \* what the last finished call returned
    visPc,         \* "idle", "running", "returned" or "crashed"
    visRoot        \* history: the type the outermost call is on

VARIABLES
    \* ---- expression extractor, extract_expr, and parseEvent on its input
    exChunk,       \* the text of an argument list, as tokens
    exExpr,        \* what extract_expr made of it: the text returned and *i
    exEvent        \* what parseEvent made of an event statement with it

VARIABLES
    \* ---- runtime support: rt::raise_event
    rtHandler,     \* the handler of the call: its name and the number of its parameters
    rtArgs,        \* args
    rtVl,          \* ::zeek::Args vl
    rtI,           \* the position of the loop over args
    rtPc,          \* "idle", "arity", "loop", "returned" or "thrown"
    rtErr,         \* the exception thrown: "" for none
    rtQueue        \* what ::zeek::event_mgr.Enqueue has been given, in order

VARIABLES
    \* ---- runtime support: one rt::cookie::FileStateStack and the rt::file_* calls on it
    fsStack,       \* _stack: the FileState entries, the newest last
    fsCounter,     \* _id_counter
    fsLast,        \* the last call: its kind, its fid argument, its outcome, the fid it worked on
    fsBegun,       \* history: the fids file_begin has returned, in order
    fsEnded        \* history: the fids a file_end has removed

scanVars == <<input, inpos, state, prev, chunk, lineno, blockResult>>
ppVars == <<ppIn, ppPos, ppOut, ppStack, ppLineno, ppStatus, ppSeen, zeek_version>>

portVars == <<portChunk, portI, portPc, portStart, portEnd, portCounter, portResult, portErr>>

idVars == <<idChunk, idI, idPc, idOut, idEv>>

gcVars == <<protocol_analyzers, file_analyzers, packet_analyzers, events, imports, exports,
           spicy_modules, locations, loaded>>

compileVars == <<driver, inputs, pc, init_module, preinit_body, typeIdx, log, compiled>>

visVars == <<visStack, zeek_types, visId, visRet, visPc, visRoot>>

exprVars == <<exChunk, exExpr, exEvent>>

raiseVars == <<rtHandler, rtArgs, rtVl, rtI, rtPc, rtErr, rtQueue>>

fileVars == <<fsStack, fsCounter, fsLast, fsBegun, fsEnded>>

\* The components outside the glue compiler's store and compile().
restVars == <<exprVars, raiseVars, fileVars>>

vars == <<scanVars, ppVars, portVars, idVars, gcVars, compileVars, visVars, restVars>>

\* What the actions of one component leave alone: the other components.
ScanFrame == UNCHANGED <<ppVars, portVars, idVars, gcVars, compileVars, visVars, restVars>>
PpFrame == UNCHANGED <<scanVars, portVars, idVars, gcVars, compileVars, visVars, restVars>>
PortFrame == UNCHANGED <<scanVars, ppVars, idVars, gcVars, compileVars, visVars, restVars>>
IdFrame == UNCHANGED <<scanVars, ppVars, portVars, gcVars, compileVars, visVars, restVars>>
GcFrame == UNCHANGED <<scanVars, ppVars, portVars, idVars, restVars>>
GlueFrame == UNCHANGED <<scanVars, ppVars, portVars, idVars, gcVars, compileVars, visVars>>
ExprFrame == GlueFrame /\ UNCHANGED <<raiseVars, fileVars>>
RaiseFrame == GlueFrame /\ UNCHANGED <<exprVars, fileVars>>
FileFrame == GlueFrame /\ UNCHANGED <<exprVars, raiseVars>>

\* ------------------------------------------------------------------------
\* Characters and small string helpers
\* ------------------------------------------------------------------------

NUL == "NUL"
QUOTE == "\""
BACKSLASH == "\\"
NEWLINE == "\n"
HASH == "#"
SEMICOLON == ";"

\* isspace()
IsSpace(c) == c \in {" ", NEWLINE}

RECURSIVE LTrim(_)
LTrim(s) == IF s # <<>> /\ IsSpace(Head(s)) THEN LTrim(Tail(s)) ELSE s

RECURSIVE RTrim(_)
RTrim(s) == IF s # <<>> /\ IsSpace(s[Len(s)]) THEN RTrim(SubSeq(s, 1, Len(s) - 1)) ELSE s

\* hilti::util::trim
Trim(s) == RTrim(LTrim(s))

\* All sequences over S of length 0..n
SeqsUpTo(S, n) == UNION {[1..k -> S] : k \in 0..n}

\* ------------------------------------------------------------------------
\* Chunk scanner: GlueCompiler::getNextEvtBlock
\* ------------------------------------------------------------------------

\* Longest stream the scanner is run on.
MaxInput == 5

ScanChars == {"a", SEMICOLON, QUOTE, HASH, BACKSLASH, NEWLINE}

Running == [kind |-> "running", value |-> <<>>, msg |-> ""]

\* The locals of a fresh call: chunk empty, state Default, prev '\0'.
ScanInit ==
    /\ input \in SeqsUpTo(ScanChars, MaxInput)
    /\ inpos = 0
    /\ state = "Default"
    /\ prev = NUL
    /\ chunk = <<>>
    /\ lineno = 1
    /\ blockResult = Running

ScanIdle ==
    /\ input = <<>>
    /\ inpos = 0
    /\ state = "Default"
    /\ prev = NUL
    /\ chunk = <<>>
    /\ lineno = 0
    /\ blockResult = [kind |-> "idle", value |-> <<>>, msg |-> ""]

\* `cur == '"' && prev != '\\'`, `cur == '#' && prev != '\\'`
Unescaped(cur, pr, c) == cur = c /\ pr # BACKSLASH

\* Mutant of EndsBlock: the ';' is given the same escape rule as '"' and '#'.
EndsBlock_escaped(st, cur, pr) == st = "Default" /\ cur = SEMICOLON /\ pr # BACKSLASH

\* `case Default: ... if ( cur == ';' )`: the read character ends the block.
\* A '#' that opens a comment is never a ';', so the earlier `continue`
\* takes nothing away from this test.
EndsBlock(st, cur, pr) == st = "Default" /\ cur = SEMICOLON

\* The state after the character: the assignments to `state` of the switch.
NextState(st, cur, pr) ==
    CASE st = "Default" ->
            IF Unescaped(cur, pr, HASH) THEN "InComment"
            ELSE IF Unescaped(cur, pr, QUOTE) THEN "InString"
            ELSE "Default"
      [] st = "InString" -> IF Unescaped(cur, pr, QUOTE) THEN "Default" ELSE "InString"
      [] st = "InComment" -> IF cur = NEWLINE THEN "Default" ELSE "InComment"

\* The iterations that `continue` before `chunk += cur; prev = cur`.
Skipped(st, cur, pr) ==
    \/ st = "Default" /\ Unescaped(cur, pr, HASH)
    \/ st = "InComment" /\ cur # NEWLINE

\* Mutant of CountsLine: the newline that ends a comment is not counted.
CountsLine_noComment(st, cur, pr) ==
    /\ cur = NEWLINE
    /\ st \in {"Default", "InString"}
    /\ ~(st = "Default" /\ Unescaped(cur, pr, HASH))

\* `++*lineno` in the three cases.
CountsLine(st, cur, pr) ==
    /\ cur = NEWLINE
    /\ ~(st = "Default" /\ Unescaped(cur, pr, HASH))

\* One iteration of `while ( true )` that reads a character.
GetNextEvtBlock_ReadChar ==
    /\ blockResult.kind = "running"
    /\ inpos < Len(input)
    /\ LET cur == input[inpos + 1] IN
        /\ inpos' = inpos + 1
        /\ state' = NextState(state, cur, prev)
        /\ lineno' = IF CountsLine(state, cur, prev) THEN lineno + 1 ELSE lineno
        /\ IF EndsBlock(state, cur, prev)
           THEN /\ chunk' = Trim(chunk)
                /\ blockResult' = IF Trim(chunk) # <<>>
                                  THEN [kind |-> "chunk", value |-> Append(Trim(chunk), SEMICOLON), msg |-> ""]
                                  ELSE [kind |-> "error", value |-> <<>>, msg |-> "empty block"]
                /\ prev' = prev
           ELSE IF Skipped(state, cur, prev)
           THEN UNCHANGED <<chunk, prev, blockResult>>
           ELSE /\ chunk' = Append(chunk, cur)
                /\ prev' = cur
                /\ UNCHANGED blockResult
    /\ UNCHANGED input
    /\ ScanFrame

\* The iteration in which `in.get(cur)` hits the end of the stream.
GetNextEvtBlock_Eof ==
    /\ blockResult.kind = "running"
    /\ inpos = Len(input)
    /\ chunk' = Trim(chunk)
    /\ blockResult' = IF Trim(chunk) = <<>>
                      THEN [kind |-> "eof", value |-> <<>>, msg |-> ""]
                      ELSE [kind |-> "error", value |-> <<>>, msg |-> "unexpected end of file"]
    /\ UNCHANGED <<input, inpos, state, prev, lineno>>
    /\ ScanFrame

\* The next call on the same stream, as loadEvtFile's loop makes it after a
\* non-empty chunk: fresh locals, the stream and *lineno carried over.
GetNextEvtBlock_Call ==
    /\ blockResult.kind = "chunk"
    /\ state' = "Default"
    /\ prev' = NUL
    /\ chunk' = <<>>
    /\ blockResult' = Running
    /\ UNCHANGED <<input, inpos, lineno>>
    /\ ScanFrame

ScanNext ==
    \/ GetNextEvtBlock_ReadChar
    \/ GetNextEvtBlock_Eof
    \/ GetNextEvtBlock_Call

\* ------------------------------------------------------------------------
\* Conditional preprocessor: GlueCompiler::preprocessEvtFile
\* ------------------------------------------------------------------------

\* Most lines of a preprocessed file.
MaxLines == 4

\* The host versions the files are preprocessed for.
ZeekVersions == {50100, 50200}

\* The lines files are made of. A line is a sequence of tokens: a blank " "
\* or a word. The words that begin with '@' are the ones of AtWords.
AtWords == {"@if", "@else", "@endif", "@bogus"}

PpLines ==
    { <<"x">>,
      <<" ", "y", " ">>,
      <<>>,
      <<"@if", " ", "ZEEK_VERSION", " ", ">=", " ", "50200">>,
      <<"@else">>,
      <<" ", "@endif">>,
      <<"@bogus">> }

\* The stream of a file: its lines, each but the last followed by NEWLINE,
\* the last followed by NEWLINE when the file ends with one.
RECURSIVE JoinLines(_, _)
JoinLines(ls, trailing) ==
    IF ls = <<>> THEN <<>>
    ELSE IF Len(ls) = 1 THEN (IF trailing THEN Append(ls[1], NEWLINE) ELSE ls[1])
    ELSE Append(ls[1], NEWLINE) \o JoinLines(Tail(ls), trailing)

\* std::getline on the rest of a stream: the tokens before the first NEWLINE
\* and the number of tokens consumed (the NEWLINE included).
RECURSIVE GetLine(_)
GetLine(rest) ==
    IF rest = <<>> THEN [line |-> <<>>, used |-> 0]
    ELSE IF Head(rest) = NEWLINE THEN [line |-> <<>>, used |-> 1]
    ELSE LET r == GetLine(Tail(rest))
         IN [line |-> <<Head(rest)>> \o r.line, used |-> r.used + 1]

\* All lines std::getline reads from a stream, in order.
RECURSIVE GetLines(_)
GetLines(s) ==
    IF s = <<>> THEN <<>>
    ELSE LET r == GetLine(s)
         IN <<r.line>> \o GetLines(SubSeq(s, r.used + 1, Len(s)))

\* hilti::util::startsWith(trimmed, "@")
StartsWithAt(trimmed) == trimmed # <<>> /\ Head(trimmed) \in AtWords

\* hilti::util::split1: the first word and the rest after the blanks.
Split1(trimmed) ==
    [first |-> Head(trimmed), second |-> LTrim(Tail(trimmed))]

\* SourceCodePreprocessor::state(): Include outside any @if; inside, Include
\* when the enclosing state was Include and the current branch is taken.
PpState(stk) ==
    IF stk = <<>> THEN "Include"
    ELSE IF stk[Len(stk)].parent = "Include" /\ stk[Len(stk)].taken THEN "Include"
    ELSE "Skip"

\* SourceCodePreprocessor::expectingDirective(): an @if is still open.
ExpectingDirective(stk) == stk # <<>>

\* The words of an expression, blanks dropped.
RECURSIVE Words(_)
Words(e) ==
    IF e = <<>> THEN <<>>
    ELSE IF IsSpace(Head(e)) THEN Words(Tail(e))
    ELSE <<Head(e)>> \o Words(Tail(e))

\* The numbers the @if conditions of PpLines name.
ToInt(w) == CASE w = "50200" -> 50200 [] w = "50100" -> 50100 [] OTHER -> 0

\* The value of an @if condition `ID OP NUMBER` for the given host version;
\* "error" for anything else.
EvalIf(expr, ver) ==
    LET w == Words(expr) IN
    IF Len(w) # 3 \/ w[2] \notin {">=", "<"} THEN "error"
    ELSE LET have == IF w[1] = "ZEEK_VERSION" THEN ver ELSE 0
         IN IF w[2] = ">=" THEN (IF have >= ToInt(w[3]) THEN "true" ELSE "false")
            ELSE (IF have < ToInt(w[3]) THEN "true" ELSE "false")

\* SourceCodePreprocessor::processLine: @if pushes, @else toggles the top,
\* @endif pops; anything else, or an @else / @endif outside an @if, fails.
ProcessLine(stk, directive, expr, ver) ==
    CASE directive = "@if" ->
            IF PpState(stk) = "Skip"
            THEN [ok |-> TRUE, stack |-> Append(stk, [parent |-> "Skip", taken |-> FALSE])]
            ELSE IF EvalIf(expr, ver) = "error"
            THEN [ok |-> FALSE, stack |-> stk]
            ELSE [ok |-> TRUE,
                  stack |-> Append(stk, [parent |-> "Include", taken |-> EvalIf(expr, ver) = "true"])]
      [] directive = "@else" ->
            IF expr # <<>> \/ stk = <<>>
            THEN [ok |-> FALSE, stack |-> stk]
            ELSE [ok |-> TRUE,
                  stack |-> [stk EXCEPT ![Len(stk)].taken = ~stk[Len(stk)].taken]]
      [] directive = "@endif" ->
            IF expr # <<>> \/ stk = <<>>
            THEN [ok |-> FALSE, stack |-> stk]
            ELSE [ok |-> TRUE, stack |-> SubSeq(stk, 1, Len(stk) - 1)]
      [] OTHER -> [ok |-> FALSE, stack |-> stk]

\* Mutant of Emitted: a skipped line is dropped instead of blanked.
Emitted_dropSkipped(line, st) ==
    IF StartsWithAt(Trim(line)) THEN <<NEWLINE>>
    ELSE IF st = "Include" THEN Append(line, NEWLINE)
    ELSE <<>>

\* What one line adds to `out`: `out << '\n'` for a directive and for a line
\* read in state Skip, `out << line << '\n'` for a line read in state Include.
Emitted(line, st) ==
    IF StartsWithAt(Trim(line)) THEN <<NEWLINE>>
    ELSE IF st = "Include" THEN Append(line, NEWLINE)
    ELSE <<NEWLINE>>

PpInit ==
    /\ \E ls \in SeqsUpTo(PpLines, MaxLines), trailing \in BOOLEAN :
          ppIn = JoinLines(ls, trailing)
    /\ zeek_version \in ZeekVersions
    /\ ppPos = 0
    /\ ppOut = <<>>
    /\ ppStack = <<>>
    /\ ppLineno = 0
    /\ ppStatus = "running"
    /\ ppSeen = <<>>

PpRest ==
    /\ ppIn = <<>>
    /\ ppPos = 0
    /\ ppOut = <<>>
    /\ ppStack = <<>>
    /\ ppLineno = 0
    /\ ppStatus = "idle"
    /\ ppSeen = <<>>

PpIdle == PpRest /\ zeek_version = 50200

\* One iteration of `while ( std::getline(in, line) )`.
PreprocessEvtFile_Line ==
    /\ ppStatus = "running"
    /\ ppPos < Len(ppIn)
    /\ LET r == GetLine(SubSeq(ppIn, ppPos + 1, Len(ppIn)))
           line == r.line
           trimmed == Trim(line)
           st == PpState(ppStack)
           m == Split1(trimmed)
           rc == ProcessLine(ppStack, m.first, m.second, zeek_version)
       IN
        /\ ppPos' = ppPos + r.used
        /\ ppLineno' = ppLineno + 1
        /\ ppOut' = ppOut \o Emitted(line, st)
        /\ ppSeen' = Append(ppSeen, [line |-> line, st |-> st])
        /\ IF StartsWithAt(trimmed)
           THEN IF rc.ok
                THEN ppStack' = rc.stack /\ ppStatus' = "running"
                ELSE ppStack' = ppStack /\ ppStatus' = "error"
           ELSE UNCHANGED <<ppStack, ppStatus>>
    /\ UNCHANGED <<ppIn, zeek_version>>
    /\ PpFrame

\* std::getline fails at the end of the stream: the check after the loop.
PreprocessEvtFile_End ==
    /\ ppStatus = "running"
    /\ ppPos = Len(ppIn)
    /\ ppStatus' = IF ExpectingDirective(ppStack) THEN "error" ELSE "done"
    /\ UNCHANGED <<ppIn, ppPos, ppOut, ppStack, ppLineno, ppSeen, zeek_version>>
    /\ PpFrame

PpNext ==
    \/ PreprocessEvtFile_Line
    \/ PreprocessEvtFile_End

\* ------------------------------------------------------------------------
\* Port extractors: extract_port, extract_ports
\* ------------------------------------------------------------------------

\* Widest port range expanded in the model (end - start).
MaxSpan == 2

\* The largest port number: `if ( port > 65535 )`.
MaxPort == 65535

\* uint16_t arithmetic of the loop counter.
Uint16(n) == n % (MaxPort + 1)

\* The length at which the model stops following a result that keeps growing.
PortCap == MaxSpan + 3

\* Port numbers at both ends of the 16-bit range, and one beyond it.
PortNumbers == (0..MaxSpan) \cup ((MaxPort - MaxSpan)..(MaxPort + 1))

Protocols == {"tcp", "udp", "icmp"}

\* A chunk is a sequence of tokens [t, v, s]: a number (t = "num", v its
\* value), a run of identifier or path characters (t = "id", s the
\* characters), a blank (t = " ") or a symbol or word (t the text).
Num(n) == [t |-> "num", v |-> n, s |-> <<>>]
Tok(x) == [t |-> x, v |-> 0, s |-> <<>>]

NoPort == [port |-> -1, proto |-> "none"]

\* eat_spaces
RECURSIVE EatSpaces(_, _)
EatSpaces(c, i) == IF i <= Len(c) /\ c[i].t = " " THEN EatSpaces(c, i + 1) ELSE i

\* looking_at: the index after the token, or 0 when the token is not next.
LookingAt(c, i, token) ==
    LET j == EatSpaces(c, i)
    IN IF j <= Len(c) /\ c[j].t = token THEN j + 1 ELSE 0

PortError(i, msg) == [ok |-> FALSE, port |-> NoPort, i |-> i, msg |-> msg]

\* extract_port: digits, '/' right after them, then tcp, udp or icmp.
ExtractPort(c, i) ==
    LET j == EatSpaces(c, i) IN
    IF j > Len(c) \/ c[j].t # "num"
    THEN PortError(j, "cannot parse port specification")
    ELSE IF c[j].v > MaxPort
    THEN PortError(j, "port outside of valid range")
    ELSE IF j + 1 > Len(c) \/ c[j + 1].t # "/"
    THEN PortError(j + 1, "cannot parse port specification")
    ELSE LET k == j + 2
             proto == CASE LookingAt(c, k, "tcp") # 0 -> "tcp"
                        [] LookingAt(c, k, "udp") # 0 -> "udp"
                        [] LookingAt(c, k, "icmp") # 0 -> "icmp"
                        [] OTHER -> "none"
         IN IF proto = "none"
            THEN PortError(k, "cannot parse port specification")
            ELSE [ok |-> TRUE, port |-> [port |-> Uint16(c[j].v), proto |-> proto],
                  i |-> LookingAt(c, k, proto), msg |-> ""]

\* Mutant of RangeError: the order of the endpoints is not checked.
RangeError_noOrder(st, en) ==
    IF st.proto # en.proto THEN "start and end of port range must have same protocol"
    ELSE ""

\* The two checks of `if ( end )`; "" when the range passes both.
RangeError(st, en) ==
    IF st.proto # en.proto THEN "start and end of port range must have same protocol"
    ELSE IF st.port > en.port THEN "start of port range cannot be after its end"
    ELSE ""

\* Mutant of LoopContinues: the interval is taken half-open.
LoopContinues_halfOpen(en, port) == en = NoPort \/ port < en.port

\* The loop condition `! end || port <= end->port()`.
LoopContinues(en, port) == en = NoPort \/ port <= en.port

\* The range chunks for the endpoints s and e, none when e - s > MaxSpan.
RangeChunks(s, e) ==
    IF e - s > MaxSpan THEN {}
    ELSE UNION { { <<Num(s), Tok("/"), Tok(p), Tok("-"), Num(e), Tok("/"), Tok(q), Tok(";")>>,
                   <<Tok(" "), Num(s), Tok("/"), Tok(" "), Tok(p), Tok(" "), Tok("-"), Tok(" "),
                     Num(e), Tok("/"), Tok(q), Tok(",")>>,
                   <<Num(s), Tok("-"), Num(e), Tok("/"), Tok(q), Tok(";")>> } :
                 p \in Protocols, q \in Protocols }

\* The chunks extract_ports is run on: a single port, a range, a range with
\* blanks where eat_spaces allows them, a blank before the '/', and a range
\* whose first endpoint is a bare number.
PortChunks ==
    { <<Num(s), Tok("/"), Tok(p), Tok(";")>> : s \in PortNumbers, p \in Protocols }
    \cup
    { <<Num(s), Tok(" "), Tok("/"), Tok(p), Tok(";")>> : s \in {0}, p \in Protocols }
    \cup
    UNION { RangeChunks(s, e) :
            s \in PortNumbers, e \in PortNumbers }

PortInit ==
    /\ portChunk \in PortChunks
    /\ portI = 1
    /\ portPc = "start"
    /\ portStart = NoPort
    /\ portEnd = NoPort
    /\ portCounter = 0
    /\ portResult = <<>>
    /\ portErr = ""

PortIdle ==
    /\ portChunk = <<>>
    /\ portI = 1
    /\ portPc = "idle"
    /\ portStart = NoPort
    /\ portEnd = NoPort
    /\ portCounter = 0
    /\ portResult = <<>>
    /\ portErr = ""

\* extract_ports up to the loop: both endpoints and the checks on them.
ExtractPorts_Parse ==
    /\ portPc = "start"
    /\ LET a == ExtractPort(portChunk, portI)
           dash == IF a.ok THEN LookingAt(portChunk, a.i, "-") ELSE 0
           b == ExtractPort(portChunk, dash)
       IN
        IF ~a.ok
        THEN /\ portPc' = "error" /\ portErr' = a.msg /\ portI' = a.i
             /\ UNCHANGED <<portStart, portEnd, portCounter>>
        ELSE IF dash = 0
        THEN /\ portPc' = "loop" /\ portI' = a.i
             /\ portStart' = a.port /\ portCounter' = a.port.port
             /\ UNCHANGED <<portEnd, portErr>>
        ELSE IF ~b.ok
        THEN /\ portPc' = "error" /\ portErr' = b.msg /\ portI' = b.i
             /\ portStart' = a.port
             /\ UNCHANGED <<portEnd, portCounter>>
        ELSE /\ portI' = b.i
             /\ portStart' = a.port /\ portEnd' = b.port
             /\ portCounter' = a.port.port
             /\ portErr' = RangeError(a.port, b.port)
             /\ portPc' = IF RangeError(a.port, b.port) = "" THEN "loop" ELSE "error"
    /\ UNCHANGED <<portChunk, portResult>>
    /\ PortFrame

\* One iteration of the loop: `result.emplace_back(port, start.protocol())`,
\* then `break` without an end, `++port` with one.
ExtractPorts_Loop ==
    /\ portPc = "loop"
    /\ LoopContinues(portEnd, portCounter)
    /\ Len(portResult) < PortCap
    /\ portResult' = Append(portResult, [port |-> portCounter, proto |-> portStart.proto])
    /\ IF portEnd = NoPort
       THEN portPc' = "returned" /\ UNCHANGED portCounter
       ELSE portPc' = "loop" /\ portCounter' = Uint16(portCounter + 1)
    /\ UNCHANGED <<portChunk, portI, portStart, portEnd, portErr>>
    /\ PortFrame

\* The loop condition fails: `return result`.
ExtractPorts_Return ==
    /\ portPc = "loop"
    /\ ~LoopContinues(portEnd, portCounter)
    /\ portPc' = "returned"
    /\ UNCHANGED <<portChunk, portI, portStart, portEnd, portCounter, portResult, portErr>>
    /\ PortFrame

PortNext ==
    \/ ExtractPorts_Parse
    \/ ExtractPorts_Loop
    \/ ExtractPorts_Return

\* ------------------------------------------------------------------------
\* Identifiers: is_id_char, extract_id, hilti::ID
\* ------------------------------------------------------------------------

\* Longest chunk extract_id is run on.
MaxIdChunk == 5

IdChars == {"a", "_", "%", ":", " "}

PERCENT == <<"%">>
ENCODED == <<"0", "x", "2", "5", "_">>
SCOPE == <<":", ":">>
DONE_HOOK == <<"0", "x", "2", "5", "_", "d", "o", "n", "e">>

\* isalnum()
IsAlnum(c) ==
    c \in {"a", "b", "c", "d", "e", "f", "g", "h", "i", "j", "k", "l", "m", "n", "o", "p", "q",
            "r", "s", "t", "u", "v", "w", "x", "y", "z",
            "A", "B", "C", "D", "E", "F", "G", "H", "I", "J", "K", "L", "M", "N", "O", "P", "Q",
            "R", "S", "T", "U", "V", "W", "X", "Y", "Z",
            "0", "1", "2", "3", "4", "5", "6", "7", "8", "9"}

\* is_id_char: alphanumeric, one of "_$%", or a ':' next to another ':'.
IsIdChar(c, i) ==
    LET pr == IF i > 1 THEN c[i - 1] ELSE NUL
        nx == IF i + 1 <= Len(c) THEN c[i + 1] ELSE NUL
    IN \/ IsAlnum(c[i])
       \/ c[i] \in {"_", "$", "%"}
       \/ c[i] = ":" /\ nx = ":"
       \/ c[i] = ":" /\ pr = ":"

\* The index of the first occurrence of o in x at or after i; 0 if none.
RECURSIVE Find(_, _, _)
Find(x, o, i) ==
    IF i + Len(o) - 1 > Len(x) THEN 0
    ELSE IF SubSeq(x, i, i + Len(o) - 1) = o THEN i
    ELSE Find(x, o, i + 1)

\* The index of the last occurrence of o in x; 0 if none.
RECURSIVE RFind(_, _, _)
RFind(x, o, i) ==
    IF i < 1 THEN 0
    ELSE IF i + Len(o) - 1 <= Len(x) /\ SubSeq(x, i, i + Len(o) - 1) = o THEN i
    ELSE RFind(x, o, i - 1)

\* hilti::util::replace: every occurrence of o, left to right, becomes n;
\* the search goes on after the inserted text.
RECURSIVE ReplaceFrom(_, _, _, _)
ReplaceFrom(x, i, o, n) ==
    LET k == Find(x, o, i) IN
    IF k = 0 THEN x
    ELSE ReplaceFrom(SubSeq(x, 1, k - 1) \o n \o SubSeq(x, k + Len(o), Len(x)),
                     k + Len(n), o, n)

\* Mutant of Replace: only the first occurrence is replaced.
Replace_firstOnly(x, o, n) ==
    LET k == Find(x, o, 1) IN
    IF k = 0 THEN x
    ELSE SubSeq(x, 1, k - 1) \o n \o SubSeq(x, k + Len(o), Len(x))

Replace(x, o, n) == ReplaceFrom(x, 1, o, n)

\* The end of the run of identifier characters that starts at j.
RECURSIVE IdRunEnd(_, _)
IdRunEnd(c, j) == IF j <= Len(c) /\ IsIdChar(c, j) THEN IdRunEnd(c, j + 1) ELSE j

\* eat_spaces on characters.
RECURSIVE EatSpaceChars(_, _)
EatSpaceChars(c, i) == IF i <= Len(c) /\ IsSpace(c[i]) THEN EatSpaceChars(c, i + 1) ELSE i

\* extract_id: the run of identifier characters after the blanks, with every
\* '%' replaced by "0x25_"; "expected id" when the run is empty.
ExtractId(c, i) ==
    LET b == EatSpaceChars(c, i)
        j == IdRunEnd(c, b)
    IN IF b = j
       THEN [ok |-> FALSE, id |-> <<>>, i |-> b, msg |-> "expected id"]
       ELSE [ok |-> TRUE, id |-> Replace(SubSeq(c, b, j - 1), PERCENT, ENCODED), i |-> j, msg |-> ""]

\* hilti::ID::namespace_(): what precedes the last "::", empty without one.
Namespace(id) ==
    LET k == RFind(id, SCOPE, Len(id)) IN
    IF k = 0 THEN <<>> ELSE SubSeq(id, 1, k - 1)

\* hilti::ID::local(): what follows the last "::", the whole id without one.
Local(id) ==
    LET k == RFind(id, SCOPE, Len(id)) IN
    IF k = 0 THEN id ELSE SubSeq(id, k + 2, Len(id))

\* hilti::ID operator+: the two ids joined by "::".
IdJoin(a, b) == a \o SCOPE \o b

\* ------------------------------------------------------------------------
\* Event resolver: the body of the loop of GlueCompiler::PopulateEvents
\* ------------------------------------------------------------------------

NoId == <<>>
NoType == [kind |-> "none", module_id |-> <<>>, module_path |-> <<>>, node |-> "none"]

\* A glue::Event as parseEvent leaves it, before resolution.
NewEvent(path, condition, name, exprs, priority, file, location) ==
    [path |-> path, condition |-> condition, name |-> name, exprs |-> exprs,
     priority |-> priority, file |-> file, location |-> location,
     unit |-> NoId, hook |-> NoId, unit_type |-> NoType,
     unit_module_id |-> NoId, unit_module_path |-> <<>>,
     spicy_module |-> NoId, expression_accessors |-> <<>>]

\* Driver::lookupType(id): the type with that id, if any.
LookupType(types, id) ==
    IF id \in DOMAIN types THEN [ok |-> TRUE, info |-> types[id]]
    ELSE [ok |-> FALSE, info |-> NoType]

\* Driver::lookupType<spicy::type::Unit>(id): as above, and only a unit.
LookupUnit(types, id) ==
    IF id \in DOMAIN types /\ types[id].kind = "Unit" THEN [ok |-> TRUE, info |-> types[id]]
    ELSE [ok |-> FALSE, info |-> NoType]

\* The accessors of the event's arguments, numbered from 1.
Accessors(ev) ==
    [k \in 1..Len(ev.exprs) |-> [nr |-> k, expression |-> ev.exprs[k], location |-> ev.location]]

\* Mutant of HookOfUnit: the hook name is appended as written, "%done".
HookOfUnit_raw(unit) == IdJoin(unit, <<"%", "d", "o", "n", "e">>)

\* `ev.hook = ev.unit + hilti::ID("0x25_done")`
HookOfUnit(unit) == IdJoin(unit, DONE_HOOK)

\* Mutant of UnitTypeOf: the looked-up type is taken for a unit unchecked.
UnitTypeOf_unchecked(info) == [ok |-> TRUE, type |-> info]

\* `uinfo.type.as<spicy::type::Unit>()`: the type when it is a unit; the
\* cast of any other type aborts the process.
UnitTypeOf(info) ==
    IF info.kind = "Unit" THEN [ok |-> TRUE, type |-> info] ELSE [ok |-> FALSE, type |-> NoType]

\* One iteration of the loop of PopulateEvents for an unresolved event:
\* "ok" with the resolved event, "error" (logged, `return false`) or
\* "abort" (internal error).
ResolveEvent(ev, types, modules) ==
    LET direct == LookupUnit(types, ev.path)
        unit == IF direct.ok THEN ev.path ELSE Namespace(ev.path)
        byNs == LookupType(types, unit)
        uinfo == IF direct.ok THEN direct.info ELSE byNs.info
        hook == IF direct.ok THEN HookOfUnit(unit) ELSE ev.path
    IN
    IF ~direct.ok /\ unit = NoId
    THEN [status |-> "error", ev |-> [ev EXCEPT !.unit = unit],
          msg |-> "unit type missing in hook"]
    ELSE IF ~direct.ok /\ ~byNs.ok
    THEN [status |-> "error", ev |-> [ev EXCEPT !.unit = unit],
          msg |-> "unknown unit type"]
    ELSE IF ~UnitTypeOf(uinfo).ok
    THEN [status |-> "abort", ev |-> [ev EXCEPT !.unit = unit, !.hook = hook],
          msg |-> "unexpected type"]
    ELSE IF uinfo.module_id \notin modules
    THEN [status |-> "abort",
          ev |-> [ev EXCEPT !.unit = unit, !.hook = hook,
                            !.unit_type = UnitTypeOf(uinfo).type,
                            !.unit_module_id = uinfo.module_id,
                            !.unit_module_path = uinfo.module_path],
          msg |-> "module not known in Spicy module list"]
    ELSE [status |-> "ok",
          ev |-> [ev EXCEPT !.unit = unit, !.hook = hook,
                            !.unit_type = UnitTypeOf(uinfo).type,
                            !.unit_module_id = uinfo.module_id,
                            !.unit_module_path = uinfo.module_path,
                            !.spicy_module = uinfo.module_id,
                            !.expression_accessors = Accessors(ev)],
          msg |-> ""]

\* ------------------------------------------------------------------------
\* extract_id followed by the resolution of the event it names
\* ------------------------------------------------------------------------

ID_M == <<"M">>
M_SPICY == <<"m", ".", "s", "p", "i", "c", "y">>

\* The types the driver may know for an extracted path: the path itself or
\* its namespace, as a unit or as an enum, or nothing.
TypeTables(path) ==
    LET unit == [kind |-> "Unit", module_id |-> ID_M, module_path |-> M_SPICY, node |-> "none"]
        enum == [kind |-> "Enum", module_id |-> ID_M, module_path |-> M_SPICY, node |-> "none"]
        one(id, info) == [x \in {id} |-> info]
    IN {one(path, unit), one(path, enum), one(Namespace(path), unit),
        one(Namespace(path), enum), one(<<"Z">>, unit)}

NoEvent == NewEvent(NoId, <<>>, NoId, <<>>, 0, <<>>, <<>>)

IdInit ==
    /\ idChunk \in SeqsUpTo(IdChars, MaxIdChunk)
    /\ idI = 1
    /\ idPc = "start"
    /\ idOut = NoId
    /\ idEv = NoEvent

IdIdle ==
    /\ idChunk = <<>>
    /\ idI = 1
    /\ idPc = "idle"
    /\ idOut = NoId
    /\ idEv = NoEvent

\* `ev.path = extract_id(chunk, &i)` of parseEvent.
ExtractId_Call ==
    /\ idPc = "start"
    /\ LET r == ExtractId(idChunk, idI) IN
        /\ idI' = r.i
        /\ idOut' = r.id
        /\ idPc' = IF r.ok THEN "extracted" ELSE "error"
        /\ idEv' = IF r.ok THEN NewEvent(r.id, <<>>, <<"e">>, <<>>, -1000, <<>>, <<>>) ELSE idEv
    /\ UNCHANGED idChunk
    /\ IdFrame

\* PopulateEvents on the event, for some type table of the driver.
PopulateEvents_One ==
    /\ idPc = "extracted"
    /\ \E types \in TypeTables(idEv.path) :
          LET r == ResolveEvent(idEv, types, {ID_M}) IN
            /\ idEv' = r.ev
            /\ idPc' = IF r.status = "ok" THEN "resolved" ELSE "failed"
    /\ UNCHANGED <<idChunk, idI, idOut>>
    /\ IdFrame

IdNext ==
    \/ ExtractId_Call
    \/ PopulateEvents_One

\* ------------------------------------------------------------------------
\* Statement parsers: parseProtocolAnalyzer, parseFileAnalyzer,
\* parsePacketAnalyzer, parseEvent and the extractors they use
\* ------------------------------------------------------------------------

\* `if ( *_zeek_version < 50200 )`
ReplacesMinVersion == 50200

\* `ev.priority = -1000`
DefaultPriority == -1000

Id(cs) == [t |-> "id", v |-> 0, s |-> cs]

\* hilti::util::trim on a sequence of tokens.
RECURSIVE LTrimToks(_)
LTrimToks(c) == IF c # <<>> /\ Head(c).t = " " THEN LTrimToks(Tail(c)) ELSE c

RECURSIVE RTrimToks(_)
RTrimToks(c) == IF c # <<>> /\ c[Len(c)].t = " " THEN RTrimToks(SubSeq(c, 1, Len(c) - 1)) ELSE c

TrimToks(c) == RTrimToks(LTrimToks(c))

\* hilti::util::tolower
LowerChar(ch) ==
    CASE ch = "T" -> "t" [] ch = "C" -> "c" [] ch = "P" -> "p" [] ch = "U" -> "u"
      [] ch = "D" -> "d" [] ch = "I" -> "i" [] ch = "M" -> "m" [] OTHER -> ch

ToLower(cs) == [k \in 1..Len(cs) |-> LowerChar(cs[k])]

\* A parser at work on a chunk: the chunk, the cursor `i` (from 1), whether
\* it is still going ("ok"), has thrown a ParseError ("error") or is in a
\* call that never returns ("hang"), the declaration it fills in, and what
\* the extractors returned last.
Parser(c, val) ==
    [c |-> c, i |-> 1, st |-> "ok", msg |-> "", val |-> val,
     id |-> <<>>, n |-> 0, expr |-> <<>>, start |-> NoPort, end |-> NoPort, ports |-> <<>>]

\* `throw ParseError(msg)`
Fail(p, msg) == [p EXCEPT !.st = "error", !.msg = msg]

\* looking_at(chunk, i, token)
At(p, token) == LookingAt(p.c, p.i, token) # 0

\* eat_token(chunk, &i, token)
Eat(p, token) ==
    IF p.st # "ok" THEN p
    ELSE IF At(p, token) THEN [p EXCEPT !.i = LookingAt(p.c, p.i, token)]
    ELSE Fail(p, "expected token")

\* extract_id on the token at j, the first one after the blanks.
IdAt(p, j) ==
    IF j <= Len(p.c) /\ p.c[j].t = "id" /\ ExtractId(p.c[j].s, 1).ok
    THEN [p EXCEPT !.id = ExtractId(p.c[j].s, 1).id, !.i = j + 1]
    ELSE Fail(p, "expected id")

\* extract_id(chunk, &i)
GetId(p) == IF p.st # "ok" THEN p ELSE IdAt(p, EatSpaces(p.c, p.i))

\* extract_path on the token at j: the characters as written.
PathAt(p, j) ==
    IF j <= Len(p.c) /\ p.c[j].t = "id"
    THEN [p EXCEPT !.id = p.c[j].s, !.i = j + 1]
    ELSE Fail(p, "expected path")

\* extract_path(chunk, &i)
GetPath(p) == IF p.st # "ok" THEN p ELSE PathAt(p, EatSpaces(p.c, p.i))

\* extract_int from j on: an optional '-', an optional '+', then digits.
IntAt(p, j) ==
    LET j1 == IF j <= Len(p.c) /\ p.c[j].t = "-" THEN j + 1 ELSE j
        j2 == IF j1 <= Len(p.c) /\ p.c[j1].t = "+" THEN j1 + 1 ELSE j1
    IN IF j2 <= Len(p.c) /\ p.c[j2].t = "num"
       THEN [p EXCEPT !.n = IF j1 > j THEN 0 - p.c[j2].v ELSE p.c[j2].v, !.i = j2 + 1]
       ELSE IF j2 = j THEN Fail(p, "expected integer")
       ELSE [p EXCEPT !.n = 0, !.i = j2]

\* extract_int(chunk, &i)
GetInt(p) == IF p.st # "ok" THEN p ELSE IntAt(p, EatSpaces(p.c, p.i))

\* The scan of extract_expr from j at nesting `level`: the index of the
\* top-level ',' or ')' that ends the expression (or the end of the chunk);
\* 0 for a ']' or '}' at level 0.
RECURSIVE ExprEnd(_, _, _)
ExprEnd(c, j, level) ==
    IF j > Len(c) THEN j
    ELSE CASE c[j].t \in {"(", "[", "{"} -> ExprEnd(c, j + 1, level + 1)
           [] c[j].t = ")" -> IF level = 0 THEN j ELSE ExprEnd(c, j + 1, level - 1)
           [] c[j].t \in {"]", "}"} -> IF level = 0 THEN 0 ELSE ExprEnd(c, j + 1, level - 1)
           [] c[j].t = "," -> IF level = 0 THEN j ELSE ExprEnd(c, j + 1, level)
           [] OTHER -> ExprEnd(c, j + 1, level)

\* extract_expr from b, the first token after the blanks, to j.
ExprAt(p, b, j) ==
    IF j = 0 THEN Fail(p, "expected Spicy expression")
    ELSE [p EXCEPT !.expr = TrimToks(SubSeq(p.c, b, j - 1)), !.i = j]

\* extract_expr(chunk, &i): the trimmed text up to the top-level ',' or ')'.
GetExpr(p) ==
    IF p.st # "ok" THEN p
    ELSE ExprAt(p, EatSpaces(p.c, p.i), ExprEnd(p.c, EatSpaces(p.c, p.i), 0))

\* The loop of extract_ports on a range that passed the checks: the list, or
\* nothing when the list keeps growing.
RECURSIVE PortLoop(_, _, _, _)
PortLoop(st, en, port, result) ==
    IF ~LoopContinues(en, port) THEN [returns |-> TRUE, result |-> result]
    ELSE IF Len(result) >= PortCap THEN [returns |-> FALSE, result |-> result]
    ELSE IF en = NoPort
    THEN [returns |-> TRUE, result |-> Append(result, [port |-> port, proto |-> st.proto])]
    ELSE PortLoop(st, en, Uint16(port + 1), Append(result, [port |-> port, proto |-> st.proto]))

\* The parser after extract_port has returned r for the start or the end.
GotPort(p, r, which) ==
    IF ~r.ok THEN Fail(p, r.msg)
    ELSE IF which = "start" THEN [p EXCEPT !.start = r.port, !.end = NoPort, !.i = r.i]
    ELSE [p EXCEPT !.end = r.port, !.i = r.i]

GetPort(p, which) == IF p.st # "ok" THEN p ELSE GotPort(p, ExtractPort(p.c, p.i), which)

\* The two checks of `if ( end )`.
RangeChecked(p) ==
    IF p.st = "ok" /\ RangeError(p.start, p.end) # ""
    THEN Fail(p, RangeError(p.start, p.end))
    ELSE p

\* `if ( looking_at(chunk, *i, "-") ) { eat_token(...); end = extract_port(...); }`
PortsEnd(p) ==
    IF p.st = "ok" /\ At(p, "-") THEN RangeChecked(GetPort(Eat(p, "-"), "end")) ELSE p

\* The parser after the loop of extract_ports.
Looped(p, l) == IF l.returns THEN [p EXCEPT !.ports = l.result] ELSE [p EXCEPT !.st = "hang"]

PortsLoop(p) ==
    IF p.st # "ok" THEN p ELSE Looped(p, PortLoop(p.start, p.end, p.start.port, <<>>))

\* extract_ports(chunk, &i)
GetPorts(p) == PortsLoop(PortsEnd(GetPort(p, "start")))

\* ---- protocol analyzer

NewProtocolAnalyzer(loc) ==
    [name |-> <<>>, protocol |-> "none", unit_name_orig |-> NoId, unit_name_resp |-> NoId,
     ports |-> <<>>, replaces |-> NoId, location |-> loc,
     unit_orig |-> NoType, unit_resp |-> NoType]

\* `a.name = extract_id(chunk, &i).str()`
SetName(p) == IF p.st # "ok" THEN p ELSE [p EXCEPT !.val.name = p.id]

\* `a.replaces = extract_id(chunk, &i)`
SetReplaces(p) == IF p.st # "ok" THEN p ELSE [p EXCEPT !.val.replaces = p.id]

\* `a.unit_name = extract_id(chunk, &i)`
SetUnitName(p) == IF p.st # "ok" THEN p ELSE [p EXCEPT !.val.unit_name = p.id]

\* `a.ports.insert(a.ports.end(), ports.begin(), ports.end())`
AddPorts(p) == IF p.st # "ok" THEN p ELSE [p EXCEPT !.val.ports = @ \o p.ports]

Transport(proto) ==
    CASE proto = <<"t", "c", "p">> -> "tcp"
      [] proto = <<"u", "d", "p">> -> "udp"
      [] proto = <<"i", "c", "m", "p">> -> "icmp"
      [] OTHER -> "none"

\* The chain of `if ( proto == ... )` on the lower-cased id.
SetTransport(p) ==
    IF p.st # "ok" THEN p
    ELSE IF Transport(ToLower(p.id)) = "none" THEN Fail(p, "unknown transport protocol")
    ELSE [p EXCEPT !.val.protocol = Transport(ToLower(p.id))]

\* Mutant of WithUnit: 'parse with' sets the originator side only.
WithUnit_origOnly(a, dir, unit) ==
    CASE dir = "orig" -> [a EXCEPT !.unit_name_orig = unit]
      [] dir = "resp" -> [a EXCEPT !.unit_name_resp = unit]
      [] dir = "both" -> [a EXCEPT !.unit_name_orig = unit]

\* `switch ( dir )`
WithUnit(a, dir, unit) ==
    CASE dir = "orig" -> [a EXCEPT !.unit_name_orig = unit]
      [] dir = "resp" -> [a EXCEPT !.unit_name_resp = unit]
      [] dir = "both" -> [a EXCEPT !.unit_name_orig = unit, !.unit_name_resp = unit]

SetUnit(p, dir) == IF p.st # "ok" THEN p ELSE [p EXCEPT !.val = WithUnit(p.val, dir, p.id)]

\* The 'parse' clause after the token 'parse'.
ParseWith(p) ==
    IF p.st # "ok" THEN p
    ELSE IF At(p, "originator") THEN SetUnit(GetId(Eat(Eat(p, "originator"), "with")), "orig")
    ELSE IF At(p, "responder") THEN SetUnit(GetId(Eat(Eat(p, "responder"), "with")), "resp")
    ELSE IF At(p, "with") THEN SetUnit(GetId(Eat(p, "with")), "both")
    ELSE Fail(p, "invalid \"parse with ...\" specification")

\* `ports { PORTS (, PORTS)* }` after the '{'.
RECURSIVE PortsList(_)
AfterPorts(p) ==
    IF p.st # "ok" THEN p
    ELSE IF At(p, "}") THEN Eat(p, "}")
    ELSE PortsList(Eat(p, ","))

PortsList(p) == AfterPorts(AddPorts(GetPorts(p)))

\* One clause of a protocol analyzer.
ProtocolClause(p) ==
    IF p.st # "ok" THEN p
    ELSE IF At(p, "parse") THEN ParseWith(Eat(p, "parse"))
    ELSE IF At(p, "ports") THEN PortsList(Eat(Eat(p, "ports"), "{"))
    ELSE IF At(p, "port") THEN AddPorts(GetPorts(Eat(p, "port")))
    ELSE IF At(p, "replaces") THEN SetReplaces(GetId(Eat(p, "replaces")))
    ELSE Fail(p, "unexpect token")

\* The clauses up to the ';', with ',' between them.
RECURSIVE ProtocolClauses(_)
AfterProtocolClause(p) ==
    IF p.st # "ok" \/ At(p, ";") THEN p ELSE ProtocolClauses(Eat(p, ","))

ProtocolClauses(p) == AfterProtocolClause(ProtocolClause(p))

\* GlueCompiler::parseProtocolAnalyzer
ParseProtocolAnalyzer(c, loc) ==
    ProtocolClauses(
        Eat(SetTransport(GetId(Eat(SetName(GetId(
            Eat(Eat(Parser(c, NewProtocolAnalyzer(loc)), "protocol"), "analyzer"))), "over"))), ":"))

\* ---- file analyzer

NewFileAnalyzer(loc) ==
    [name |-> <<>>, unit_name |-> NoId, mime_types |-> <<>>, replaces |-> NoId,
     location |-> loc, unit |-> NoType]

\* `a.mime_types.push_back(extract_path(chunk, &i))`
AddMimeType(p) == IF p.st # "ok" THEN p ELSE [p EXCEPT !.val.mime_types = Append(@, p.id)]

FileClause(p) ==
    IF p.st # "ok" THEN p
    ELSE IF At(p, "parse") THEN SetUnitName(GetId(Eat(Eat(p, "parse"), "with")))
    ELSE IF At(p, "mime-type") THEN AddMimeType(GetPath(Eat(p, "mime-type")))
    ELSE IF At(p, "replaces") THEN SetReplaces(GetId(Eat(p, "replaces")))
    ELSE Fail(p, "unexpect token")

RECURSIVE FileClauses(_)
AfterFileClause(p) ==
    IF p.st # "ok" \/ At(p, ";") THEN p ELSE FileClauses(Eat(p, ","))

FileClauses(p) == AfterFileClause(FileClause(p))

\* GlueCompiler::parseFileAnalyzer
ParseFileAnalyzer(c, loc) ==
    FileClauses(Eat(SetName(GetId(Eat(Eat(Parser(c, NewFileAnalyzer(loc)), "file"), "analyzer"))), ":"))

\* ---- packet analyzer

NewPacketAnalyzer(loc) ==
    [name |-> <<>>, unit_name |-> NoId, replaces |-> NoId, location |-> loc, unit |-> NoType]

\* Mutant of ReplacesAllowed: the host version is not looked at.
ReplacesAllowed_always(ver) == TRUE

\* `if ( *_zeek_version < 50200 ) throw ...`
ReplacesAllowed(ver) == ~(ver < ReplacesMinVersion)

\* The 'replaces' clause after the token 'replaces'.
PacketReplaces(p, ver) ==
    IF p.st # "ok" THEN p
    ELSE IF ~ReplacesAllowed(ver) THEN Fail(p, "packet analyzer replacement requires Zeek 5.2+")
    ELSE SetReplaces(GetId(p))

PacketClause(p, ver) ==
    IF p.st # "ok" THEN p
    ELSE IF At(p, "parse") THEN SetUnitName(GetId(Eat(Eat(p, "parse"), "with")))
    ELSE IF At(p, "replaces") THEN PacketReplaces(Eat(p, "replaces"), ver)
    ELSE Fail(p, "unexpect token")

RECURSIVE PacketClauses(_, _)
AfterPacketClause(p, ver) ==
    IF p.st # "ok" \/ At(p, ";") THEN p ELSE PacketClauses(Eat(p, ","), ver)

PacketClauses(p, ver) == AfterPacketClause(PacketClause(p, ver), ver)

\* GlueCompiler::parsePacketAnalyzer
ParsePacketAnalyzer(c, loc, ver) ==
    PacketClauses(Eat(SetName(GetId(Eat(Eat(Parser(c, NewPacketAnalyzer(loc)), "packet"), "analyzer"))), ":"),
                  ver)

\* ---- event

\* `ev.path = extract_id(chunk, &i)`
SetPath(p) == IF p.st # "ok" THEN p ELSE [p EXCEPT !.val.path = p.id]

\* `ev.condition = extract_expr(chunk, &i)`
SetCondition(p) == IF p.st # "ok" THEN p ELSE [p EXCEPT !.val.condition = p.expr]

\* `ev.name = extract_id(chunk, &i)`
SetEventName(p) == IF p.st # "ok" THEN p ELSE [p EXCEPT !.val.name = p.id]

\* `ev.exprs.push_back(expr)`
AddExpr(p) == IF p.st # "ok" THEN p ELSE [p EXCEPT !.val.exprs = Append(@, p.expr)]

\* Mutant of SetPriority: the number is dropped.
SetPriority_ignored(p) == p

\* `ev.priority = extract_int(chunk, &i)`
SetPriority(p) == IF p.st # "ok" THEN p ELSE [p EXCEPT !.val.priority = p.n]

\* `if ( looking_at(chunk, i, "if") ) { ... }`
EventCondition(p) ==
    IF p.st = "ok" /\ At(p, "if")
    THEN Eat(SetCondition(GetExpr(Eat(Eat(p, "if"), "("))), ")")
    ELSE p

\* The argument loop of parseEvent, from after the '('.
RECURSIVE EventArgs(_, _)
EventArgs(p, first) ==
    IF p.st # "ok" THEN p
    ELSE IF At(p, ")") THEN Eat(p, ")")
    ELSE EventArgs(AddExpr(GetExpr(IF first THEN p ELSE Eat(p, ","))), FALSE)

\* `if ( looking_at(chunk, i, "&priority") ) { ... }`
EventPriority(p) ==
    IF p.st = "ok" /\ At(p, "&priority")
    THEN SetPriority(GetInt(Eat(Eat(p, "&priority"), "=")))
    ELSE p

\* `eat_spaces(chunk, &i); if ( i < chunk.size() ) throw ...`
AtEnd(p) ==
    IF p.st = "ok" /\ EatSpaces(p.c, p.i) <= Len(p.c)
    THEN Fail(p, "unexpected characters at end of line")
    ELSE p

\* GlueCompiler::parseEvent; ev.file is what the caller sets.
ParseEvent(c, loc, file) ==
    AtEnd(Eat(EventPriority(EventArgs(
        Eat(SetEventName(GetId(Eat(Eat(EventCondition(SetPath(GetId(
            Eat(Parser(c, NewEvent(NoId, <<>>, NoId, <<>>, DefaultPriority, file, loc)), "on")))),
            "->"), "event"))), "("),
        TRUE)), ";"))

\* ---- import, export

SetModule(p) == IF p.st # "ok" THEN p ELSE [p EXCEPT !.val.module = p.id]

SetScope(p) == IF p.st # "ok" THEN p ELSE [p EXCEPT !.val.scope = p.id]

\* `if ( looking_at(*chunk, i, "from") ) { ... }`
ImportScope(p) ==
    IF p.st = "ok" /\ At(p, "from") THEN SetScope(GetPath(Eat(p, "from"))) ELSE p

\* `import MODULE [from SCOPE];`
ParseImport(c) ==
    ImportScope(SetModule(GetId(Eat(Parser(c, [module |-> NoId, scope |-> NoId]), "import"))))

SetExportId(p) == IF p.st # "ok" THEN p ELSE [p EXCEPT !.val.id = p.id]

\* `export ID;`
ParseExport(c, loc) ==
    SetExportId(GetId(Eat(Parser(c, [id |-> NoId, location |-> loc]), "export")))

\* ------------------------------------------------------------------------
\* Declaration store: GlueCompiler::loadEvtFile and addSpicyModule
\* ------------------------------------------------------------------------

\* Number of calls of loadEvtFile.
MaxLoads == 3

ID_N == <<"N">>
N_SPICY == <<"n", ".", "s", "p", "i", "c", "y">>

M_U == <<"M", ":", ":", "U">>
M_V == <<"M", ":", ":", "V">>
M_E == <<"M", ":", ":", "E">>
M_X == <<"M", ":", ":", "X">>
M_Y == <<"M", ":", ":", "Y">>
M_Z == <<"M", ":", ":", "Z">>
N_W == <<"N", ":", ":", "W">>
Z_Q == <<"Z", ":", ":", "Q">>

SP == Tok(" ")

\* A location of _locations: the path of the file and a line number.
Location(path, line) == [path |-> path, line |-> line]

\* An .evt file, given by what getNextEvtBlock makes of its preprocessed
\* text: the directory and name of its path, the chunks with the line
\* number after each, and how the scanner's last call ends: "eof" (an empty
\* chunk) or an error message, at line number `lines`.
\* The text of the file as preprocessEvtFile reads it is `text`, a sequence
\* of lines; PlainText when no line of the file begins with '@'.
PlainText(n) == [k \in 1..n |-> <<"x">>]

EvtFile(dir, name, chunks, end, lines) ==
    [path |-> [dir |-> dir, name |-> name], chunks |-> chunks, end |-> end, lines |-> lines,
     text |-> PlainText(lines - 1)]

Chunk(line, toks) == [line |-> line, toks |-> toks]

\* protocol analyzer A over TCP:
\*     parse originator with M::U, parse responder with M::V,
\*     ports { 80/tcp, 8000-8001/tcp };
\* on M::U -> event a($conn, self.x);
\* on M::V::%init if ( c ) -> event b(y.?z) &priority = 5;
\* import I;
\* export M::X;
FileA ==
    EvtFile("d1", "a.evt",
        << Chunk(3, <<Tok("protocol"), SP, Tok("analyzer"), SP, Id(<<"A">>), SP, Tok("over"), SP,
                      Id(<<"T", "C", "P">>), Tok(":"), SP,
                      Tok("parse"), SP, Tok("originator"), SP, Tok("with"), SP, Id(M_U), Tok(","), SP,
                      Tok("parse"), SP, Tok("responder"), SP, Tok("with"), SP, Id(M_V), Tok(","), SP,
                      Tok("ports"), SP, Tok("{"), SP, Num(80), Tok("/"), Tok("tcp"), Tok(","), SP,
                      Num(8000), Tok("/"), Tok("tcp"), Tok("-"), Num(8001), Tok("/"), Tok("tcp"), SP,
                      Tok("}"), Tok(";")>>),
           Chunk(4, <<Tok("on"), SP, Id(M_U), SP, Tok("->"), SP, Tok("event"), SP, Id(<<"a">>),
                      Tok("("), Tok("$conn"), Tok(","), SP, Id(<<"s", "e", "l", "f">>), Tok("."),
                      Id(<<"x">>), Tok(")"), Tok(";")>>),
           Chunk(5, <<Tok("on"), SP, Id(<<"M", ":", ":", "V", ":", ":", "%", "i", "n", "i", "t">>), SP,
                      Tok("if"), SP, Tok("("), SP, Id(<<"c">>), SP, Tok(")"), SP,
                      Tok("->"), SP, Tok("event"), SP, Id(<<"b">>),
                      Tok("("), Id(<<"y">>), Tok(".?"), Id(<<"z">>), Tok(")"), SP,
                      Tok("&priority"), SP, Tok("="), SP, Num(5), Tok(";")>>),
           Chunk(6, <<Tok("import"), SP, Id(<<"I">>), Tok(";")>>),
           Chunk(7, <<Tok("export"), SP, Id(M_X), Tok(";")>>) >>,
        "eof", 8)

\* packet analyzer P: parse with M::U, replaces Q;
\* file analyzer F: parse with M::V, mime-type x;
\* on N::W -> event n();
\* import J from s;
FileB ==
    EvtFile("d2", "b.evt",
        << Chunk(1, <<Tok("packet"), SP, Tok("analyzer"), SP, Id(<<"P">>), Tok(":"), SP,
                      Tok("parse"), SP, Tok("with"), SP, Id(M_U), Tok(","), SP,
                      Tok("replaces"), SP, Id(<<"Q">>), Tok(";")>>),
           Chunk(2, <<Tok("file"), SP, Tok("analyzer"), SP, Id(<<"F">>), Tok(":"), SP,
                      Tok("parse"), SP, Tok("with"), SP, Id(M_V), Tok(","), SP,
                      Tok("mime-type"), SP, Id(<<"x">>), Tok(";")>>),
           Chunk(3, <<Tok("on"), SP, Id(N_W), SP, Tok("->"), SP, Tok("event"), SP, Id(<<"n">>),
                      Tok("("), Tok(")"), Tok(";")>>),
           Chunk(4, <<Tok("import"), SP, Id(<<"J">>), SP, Tok("from"), SP, Id(<<"s">>), Tok(";")>>) >>,
        "eof", 5)

\* file analyzer G: parse with M::V;
\* on M::U -> event c();
\* on M::U event;
FileBad ==
    EvtFile("d1", "bad.evt",
        << Chunk(1, <<Tok("file"), SP, Tok("analyzer"), SP, Id(<<"G">>), Tok(":"), SP,
                      Tok("parse"), SP, Tok("with"), SP, Id(M_V), Tok(";")>>),
           Chunk(2, <<Tok("on"), SP, Id(M_U), SP, Tok("->"), SP, Tok("event"), SP, Id(<<"c">>),
                      Tok("("), Tok(")"), Tok(";")>>),
           Chunk(3, <<Tok("on"), SP, Id(M_U), SP, Tok("event"), Tok(";")>>) >>,
        "eof", 4)

\* on Z::Q -> event e();
FileUnknown ==
    EvtFile("d2", "unknown.evt",
        << Chunk(1, <<Tok("on"), SP, Id(Z_Q), SP, Tok("->"), SP, Tok("event"), SP, Id(<<"e">>),
                      Tok("("), Tok(")"), Tok(";")>>) >>,
        "eof", 2)

\* protocol analyzer I over ICMP: parse with M::U;
FileIcmp ==
    EvtFile("d2", "icmp.evt",
        << Chunk(1, <<Tok("protocol"), SP, Tok("analyzer"), SP, Id(<<"I">>), SP, Tok("over"), SP,
                      Id(<<"I", "C", "M", "P">>), Tok(":"), SP,
                      Tok("parse"), SP, Tok("with"), SP, Id(M_U), Tok(";")>>) >>,
        "eof", 2)

\* on M::E::x -> event f();
FileEnum ==
    EvtFile("d1", "enum.evt",
        << Chunk(1, <<Tok("on"), SP, Id(<<"M", ":", ":", "E", ":", ":", "x">>), SP, Tok("->"), SP,
                      Tok("event"), SP, Id(<<"f">>), Tok("("), Tok(")"), Tok(";")>>) >>,
        "eof", 2)

\* protocol analyzer R over TCP: parse with M::U, port 6000-6002/tcp;
FileRange ==
    EvtFile("d1", "range.evt",
        << Chunk(1, <<Tok("protocol"), SP, Tok("analyzer"), SP, Id(<<"R">>), SP, Tok("over"), SP,
                      Id(<<"T", "C", "P">>), Tok(":"), SP,
                      Tok("parse"), SP, Tok("with"), SP, Id(M_U), Tok(","), SP,
                      Tok("port"), SP, Num(6000), Tok("-"), Num(6002), Tok("/"), Tok("tcp"),
                      Tok(";")>>) >>,
        "eof", 2)

\* protocol analyzer N over UDP: port 53/udp;
FileNoUnit ==
    EvtFile("d2", "nounit.evt",
        << Chunk(1, <<Tok("protocol"), SP, Tok("analyzer"), SP, Id(<<"N">>), SP, Tok("over"), SP,
                      Id(<<"U", "D", "P">>), Tok(":"), SP,
                      Tok("port"), SP, Num(53), Tok("/"), Tok("udp"), Tok(";")>>) >>,
        "eof", 2)

\* @if ZEEK_VERSION >= 50200
\* import K;
FileOpenIf ==
    [EvtFile("d1", "openif.evt",
        << Chunk(2, <<Tok("import"), SP, Id(<<"K">>), Tok(";")>>) >>,
        "eof", 3)
     EXCEPT !.text = << <<"@if", " ", "ZEEK_VERSION", " ", ">=", " ", "50200">>, <<"x">> >>]

Files ==
    {FileA, FileB, FileBad, FileUnknown, FileIcmp, FileEnum, FileRange, FileNoUnit, FileOpenIf}

\* What the loop of loadEvtFile has collected.
LoadState(pa, fa, ka, im, ex, locs) ==
    [status |-> "ok", protocol_analyzers |-> pa, file_analyzers |-> fa, packet_analyzers |-> ka,
     imports |-> im, exports |-> ex, new_events |-> <<>>, locations |-> locs, msg |-> ""]

\* Mutant of Throw: a ParseError takes the analyzers, imports and exports
\* collected so far with it.
Throw_forgetting(st, loc, status, msg) ==
    [st EXCEPT !.status = status, !.msg = msg, !.locations = Append(st.locations, loc),
               !.protocol_analyzers = <<>>, !.file_analyzers = <<>>, !.packet_analyzers = <<>>,
               !.imports = <<>>, !.exports = <<>>]

\* `throw ParseError(...)` while the location of the chunk is on _locations.
Throw(st, loc, status, msg) ==
    [st EXCEPT !.status = status, !.msg = msg, !.locations = Append(st.locations, loc)]

\* What loadEvtFile does with the declaration a parser returned, or with
\* the ParseError it threw.
Stored(st, loc, p, list) ==
    IF p.st # "ok" THEN Throw(st, loc, p.st, p.msg)
    ELSE CASE list = "protocol" -> [st EXCEPT !.protocol_analyzers = Append(@, p.val)]
           [] list = "file" -> [st EXCEPT !.file_analyzers = Append(@, p.val)]
           [] list = "packet" -> [st EXCEPT !.packet_analyzers = Append(@, p.val)]
           [] list = "event" -> [st EXCEPT !.new_events = Append(@, p.val)]
           [] list = "import" -> [st EXCEPT !.imports = Append(@, p.val)]
           [] list = "export" -> [st EXCEPT !.exports = Append(@, p.val)]

\* Mutant of Unterminated: an @if left open at the end of the file is let
\* pass.
Unterminated_ignored(stk) == FALSE

\* `if ( pp.expectingDirective() ) throw ParseError(...)`
Unterminated(stk) == ExpectingDirective(stk)

\* A line of the file that is a directive: the state after processLine.
Directive(st, trimmed, ver) ==
    LET rc == ProcessLine(st.stack, Split1(trimmed).first, Split1(trimmed).second, ver)
    IN IF rc.ok THEN [st EXCEPT !.stack = rc.stack]
       ELSE [st EXCEPT !.status = "error", !.msg = "preprocessor error"]

\* preprocessEvtFile from the k-th line of the file on: every line read
\* leaves its location on _locations; a directive that processLine refuses
\* and an @if open at the end of the file throw a ParseError.
RECURSIVE PreprocessFrom(_, _, _, _)
PreprocessFrom(f, k, st, ver) ==
    IF st.status # "ok" THEN st
    ELSE IF k > Len(f.text)
    THEN IF Unterminated(st.stack)
         THEN [st EXCEPT !.status = "error", !.msg = "unterminated preprocessor directive"]
         ELSE st
    ELSE IF StartsWithAt(Trim(f.text[k]))
    THEN PreprocessFrom(f, k + 1,
                        Directive([st EXCEPT !.locations = Append(@, Location(f.path, k))],
                                  Trim(f.text[k]), ver),
                        ver)
    ELSE PreprocessFrom(f, k + 1, [st EXCEPT !.locations = Append(@, Location(f.path, k))], ver)

\* The preprocessor at the start of a file: no @if open.
Preprocessing(locs) == [status |-> "ok", msg |-> "", stack |-> <<>>, locations |-> locs]

\* One iteration of `while ( true )` on a non-empty chunk.
LoadChunk(st, c, loc, path, ver) ==
    IF LookingAt(c, 1, "protocol") # 0 THEN Stored(st, loc, ParseProtocolAnalyzer(c, loc), "protocol")
    ELSE IF LookingAt(c, 1, "file") # 0 THEN Stored(st, loc, ParseFileAnalyzer(c, loc), "file")
    ELSE IF LookingAt(c, 1, "packet") # 0 THEN Stored(st, loc, ParsePacketAnalyzer(c, loc, ver), "packet")
    ELSE IF LookingAt(c, 1, "on") # 0 THEN Stored(st, loc, ParseEvent(c, loc, path), "event")
    ELSE IF LookingAt(c, 1, "import") # 0 THEN Stored(st, loc, ParseImport(c), "import")
    ELSE IF LookingAt(c, 1, "export") # 0 THEN Stored(st, loc, ParseExport(c, loc), "export")
    ELSE Throw(st, loc, "error", "expected 'import', 'export', '{file,packet,protocol} analyzer', or 'on'")

\* The loop of loadEvtFile from the k-th chunk of f on.
RECURSIVE LoadChunks(_, _, _, _)
LoadChunks(f, k, st, ver) ==
    IF st.status # "ok" THEN st
    ELSE IF k > Len(f.chunks)
    THEN IF f.end = "eof"
         THEN [st EXCEPT !.locations = Append(@, Location(f.path, f.lines))]
         ELSE Throw(st, Location(f.path, f.lines), "error", f.end)
    ELSE LoadChunks(f, k + 1,
                    LoadChunk(st, f.chunks[k].toks, Location(f.path, f.chunks[k].line), f.path, ver),
                    ver)

\* The try block of loadEvtFile: the whole file is preprocessed, then the
\* loop reads its chunks; a ParseError of the preprocessor leaves the block
\* before the first chunk is read.
Try(f, st, pre, ver) ==
    IF pre.status # "ok"
    THEN [st EXCEPT !.status = pre.status, !.msg = pre.msg, !.locations = pre.locations]
    ELSE LoadChunks(f, 1, [st EXCEPT !.locations = pre.locations], ver)

\* An error given to hilti::logger(): the message and the id it is about.
Logged(msg, id) == [msg |-> msg, id |-> id]

\* Mutant of EventsAfterLoad: the events go to _events as they are parsed.
EventsAfterLoad_direct(old, new_events, ok) == old \o new_events

\* Mutant of EventsAfterLoad: the events of the file go in front of the list.
EventsAfterLoad_front(old, new_events, ok) == IF ok THEN new_events \o old ELSE old

\* `for ( auto&& ev : new_events ) _events.push_back(ev);` after the
\* try block, which a ParseError leaves with `return false`.
EventsAfterLoad(old, new_events, ok) == IF ok THEN old \o new_events ELSE old

StoreInit ==
    /\ protocol_analyzers = <<>>
    /\ file_analyzers = <<>>
    /\ packet_analyzers = <<>>
    /\ events = <<>>
    /\ imports = <<>>
    /\ exports = <<>>
    /\ spicy_modules = <<>>
    /\ locations = <<>>
    /\ loaded = <<>>

\* loadEvtFile once the loop has ended with st: the lists take what the
\* loop collected, and the events follow if no ParseError was thrown.
Loaded(f, st) ==
    /\ protocol_analyzers' = st.protocol_analyzers
    /\ file_analyzers' = st.file_analyzers
    /\ packet_analyzers' = st.packet_analyzers
    /\ imports' = st.imports
    /\ exports' = st.exports
    /\ locations' = st.locations
    /\ events' = EventsAfterLoad(events, st.new_events, st.status = "ok")
    /\ log' = IF st.status = "ok" \/ st.msg = "" THEN log ELSE Append(log, Logged(st.msg, NoId))
    /\ loaded' = Append(loaded, [file |-> f.path, returned |-> st.status = "ok",
                                 parsed |-> Len(st.new_events)])
    /\ pc' = IF st.status = "hang" THEN "hung" ELSE pc

\* GlueCompiler::loadEvtFile(path)
LoadEvtFile(f) ==
    /\ pc = "idle"
    /\ Len(loaded) < MaxLoads
    /\ Loaded(f, Try(f,
                     LoadState(protocol_analyzers, file_analyzers, packet_analyzers,
                               imports, exports, locations),
                     PreprocessFrom(f, 1, Preprocessing(locations), zeek_version),
                     zeek_version))
    /\ UNCHANGED <<spicy_modules, driver, inputs, init_module, preinit_body, typeIdx, compiled>>
    /\ UNCHANGED visVars
    /\ GcFrame

\* The modules of the grammar files the driver has loaded.
SpicyModuleFiles == (ID_M :> M_SPICY) @@ (ID_N :> N_SPICY)

\* glue::SpicyModule
NewSpicyModule(id, file) == [id |-> id, file |-> file, evts |-> {}, spicy_module |-> <<>>]

\* GlueCompiler::addSpicyModule(id, file)
AddSpicyModule(id) ==
    /\ pc = "idle"
    /\ spicy_modules' = [x \in DOMAIN spicy_modules \cup {id} |->
                            IF x = id THEN NewSpicyModule(id, SpicyModuleFiles[id])
                            ELSE spicy_modules[x]]
    /\ UNCHANGED <<protocol_analyzers, file_analyzers, packet_analyzers, events, imports, exports,
                   locations, loaded>>
    /\ UNCHANGED compileVars
    /\ UNCHANGED visVars
    /\ GcFrame

\* ------------------------------------------------------------------------
\* VisitorZeekType: createZeekType and the handlers it dispatches to
\* ------------------------------------------------------------------------

\* Number of calls of createZeekType in progress.
MaxDepth == 5

\* A field, element, key or value of a type: its name ("" for an unnamed
\* tuple element), the name of its type, and whether it is optional.
Sub(name, type, optional) == [name |-> name, type |-> type, optional |-> optional]

\* A hilti::Type: its class, its typeID() (NoId without one), and what it
\* is made of.
TypeNode(kind, tid, subs) == [kind |-> kind, tid |-> tid, subs |-> subs]

M_L == <<"M", ":", ":", "L">>
M_A == <<"M", ":", ":", "A">>
M_B == <<"M", ":", ":", "B">>
M_R == <<"M", ":", ":", "R">>
M_T == <<"M", ":", ":", "T">>
M_K == <<"M", ":", ":", "K">>
M_F == <<"M", ":", ":", "F">>
M_P == <<"M", ":", ":", "P">>
M_D == <<"M", ":", ":", "D">>

\* The types of the grammar:
\*   type E = enum { ... };
\*   type X = struct { child: X; };
\*   type Y = struct { n: uint8; child: Y; };
\*   type Z = struct { a: E; b: uint8; };
\*   type L = struct { items: vector<L>; };
\*   type A = struct { b: B; };   type B = struct { n: uint8; a: A; };
\*   type R = struct { o: optional<uint8>; s: set<uint8>; };
\*   type K = struct { m: map<uint8, K>; };
\*   type T = tuple<uint8, a: uint8>;
\*   type F = function(...);
\*   type U = unit { x: uint8; };   V, W likewise
\*   type P = struct { a: E; };
\*   type D = struct { p: P; q: P; };
TypeNodes ==
    [ u8 |-> TypeNode("UnsignedInteger", NoId, <<>>),
      E |-> TypeNode("Enum", M_E, <<>>),
      X |-> TypeNode("Struct", M_X, <<Sub("child", "X", FALSE)>>),
      Y |-> TypeNode("Struct", M_Y, <<Sub("n", "u8", FALSE), Sub("child", "Y", FALSE)>>),
      Z |-> TypeNode("Struct", M_Z, <<Sub("a", "E", FALSE), Sub("b", "u8", TRUE)>>),
      L |-> TypeNode("Struct", M_L, <<Sub("items", "vecL", FALSE)>>),
      vecL |-> TypeNode("Vector", NoId, <<Sub("", "L", FALSE)>>),
      A |-> TypeNode("Struct", M_A, <<Sub("b", "B", FALSE)>>),
      B |-> TypeNode("Struct", M_B, <<Sub("n", "u8", FALSE), Sub("a", "A", FALSE)>>),
      R |-> TypeNode("Struct", M_R, <<Sub("o", "optU8", FALSE), Sub("s", "setU8", FALSE)>>),
      optU8 |-> TypeNode("Optional", NoId, <<Sub("", "u8", FALSE)>>),
      setU8 |-> TypeNode("Set", NoId, <<Sub("", "u8", FALSE)>>),
      K |-> TypeNode("Struct", M_K, <<Sub("m", "mapK", FALSE)>>),
      mapK |-> TypeNode("Map", NoId, <<Sub("", "u8", FALSE), Sub("", "K", FALSE)>>),
      T |-> TypeNode("Tuple", M_T, <<Sub("", "u8", FALSE), Sub("a", "u8", FALSE)>>),
      F |-> TypeNode("Function", M_F, <<>>),
      U |-> TypeNode("Unit", M_U, <<Sub("x", "u8", TRUE)>>),
      V |-> TypeNode("Unit", M_V, <<Sub("x", "u8", TRUE)>>),
      W |-> TypeNode("Unit", N_W, <<Sub("x", "u8", TRUE)>>),
      P |-> TypeNode("Struct", M_P, <<Sub("a", "E", FALSE)>>),
      D |-> TypeNode("Struct", M_D, <<Sub("p", "P", FALSE), Sub("q", "P", FALSE)>>) ]

\* The classes with a handler that returns base_type(tag).
BaseTag(kind) ==
    CASE kind = "Address" -> "Addr" [] kind = "Bool" -> "Bool" [] kind = "Bytes" -> "String"
      [] kind = "Interval" -> "Interval" [] kind = "Port" -> "Port" [] kind = "Real" -> "Double"
      [] kind = "SignedInteger" -> "Int" [] kind = "String" -> "String" [] kind = "Time" -> "Time"
      [] kind = "UnsignedInteger" -> "Count" [] OTHER -> ""

\* The classes whose handler calls createZeekType on parts of the type.
Composite == {"Map", "Optional", "Set", "Struct", "Tuple", "Unit", "Vector"}

\* The classes the visitor has a handler for.
Handled(kind) == BaseTag(kind) # "" \/ kind = "Enum" \/ kind \in Composite

\* What an id refers to when it is read through the empty optional: the
\* bytes of no id at all.
GARBAGE == <<"?">>

\* A hilti::Expression that builds a Zeek type.
ZeekType(fn, tag, ns, local, subs) ==
    [fn |-> fn, tag |-> tag, ns |-> ns, local |-> local, subs |-> subs]

NoExpr == ZeekType("none", "", <<>>, <<>>, <<>>)

\* hilti::Result<hilti::Expression>
Result(val) == [ok |-> TRUE, val |-> val, msg |-> ""]
Error(msg) == [ok |-> FALSE, val |-> NoExpr, msg |-> msg]
NoResult == [ok |-> FALSE, val |-> NoExpr, msg |-> "none"]

SELF_RECURSIVE == "type is self-recursive"
NO_SUPPORT == "no support for automatic conversion into a Zeek type"

\* std::optional<hilti::ID>: `v` is what the storage holds, also after the
\* optional has been emptied.
Some(v) == [some |-> TRUE, v |-> v]
None(v) == [some |-> FALSE, v |-> v]

\* A call of createZeekType(t, id_): phase "enter" up to dispatch(t),
\* "dispatch" while the handler runs (k is the part its loop is at, fields
\* what it has collected), "exit" once the handler has returned x.
Frame(node, arg) ==
    [node |-> node, arg |-> arg, phase |-> "enter", k |-> 1, fields |-> <<>>, x |-> NoResult]

\* The value of the member `id` after the first statement of createZeekType.
IdOnEntry(t, arg, old) ==
    IF arg.some THEN Some(arg.v)
    ELSE IF t.tid # NoId THEN Some(t.tid)
    ELSE None(old.v)

\* The outcomes of reading `*id`: the id when there is one; with the
\* optional empty the behaviour is undefined: what the storage still
\* holds, anything else, or the end of the process.
Deref(oid) ==
    IF oid.some THEN {[crash |-> FALSE, v |-> oid.v]}
    ELSE {[crash |-> FALSE, v |-> oid.v], [crash |-> FALSE, v |-> GARBAGE],
          [crash |-> TRUE, v |-> GARBAGE]}

\* The caller of the innermost call takes what that call returned: a handler
\* returns the error of a part at once, and otherwise goes on with the next.
TakeResult(fr, r) ==
    IF ~r.ok THEN [fr EXCEPT !.x = Error(r.msg), !.phase = "exit"]
    ELSE [fr EXCEPT !.fields = Append(@, [name |-> TypeNodes[fr.node].subs[fr.k].name,
                                          type |-> r.val,
                                          optional |-> TypeNodes[fr.node].subs[fr.k].optional]),
                    !.k = @ + 1]

\* The stack after the innermost call has returned r.
Returned(stack, r) ==
    LET rest == SubSeq(stack, 1, Len(stack) - 1) IN
    IF rest = <<>> THEN rest
    ELSE [rest EXCEPT ![Len(rest)] = TakeResult(@, r)]

\* `return` of the innermost call with result r.
Return(r) ==
    /\ visStack' = Returned(visStack, r)
    /\ visRet' = r
    /\ visPc' = IF Len(visStack) = 1 THEN "returned" ELSE "running"

\* Mutant of SeenBefore: the set of types under construction is not asked.
SeenBefore_never(types, id) == FALSE

\* `zeek_types.count(*id)`
SeenBefore(types, id) == id \in types

\* createZeekType up to `auto x = dispatch(t)`.
Vis_Enter ==
    /\ visPc = "running"
    /\ visStack # <<>>
    /\ LET fr == visStack[Len(visStack)]
           newId == IdOnEntry(TypeNodes[fr.node], fr.arg, visId)
       IN /\ fr.phase = "enter"
          /\ visId' = newId
          /\ IF newId.some /\ SeenBefore(zeek_types, newId.v)
             THEN /\ Return(Error(SELF_RECURSIVE))
                  /\ UNCHANGED zeek_types
             ELSE /\ zeek_types' = IF newId.some THEN zeek_types \cup {newId.v} ELSE zeek_types
                  /\ visStack' = [visStack EXCEPT ![Len(visStack)].phase = "dispatch"]
                  /\ UNCHANGED <<visRet, visPc>>
    /\ UNCHANGED visRoot
    /\ UNCHANGED <<gcVars, compileVars>>
    /\ GcFrame

\* A handler calls createZeekType on the next part of its type.
Vis_Part ==
    /\ visPc = "running"
    /\ visStack # <<>>
    /\ Len(visStack) < MaxDepth
    /\ LET fr == visStack[Len(visStack)]
           t == TypeNodes[fr.node]
       IN /\ fr.phase = "dispatch"
          /\ t.kind \in Composite
          /\ fr.k <= Len(t.subs)
          /\ ~(t.kind = "Tuple" /\ t.subs[fr.k].name = "")
          /\ visStack' = Append(visStack, Frame(t.subs[fr.k].type, None(NoId)))
    /\ UNCHANGED <<zeek_types, visId, visRet, visPc, visRoot>>
    /\ UNCHANGED <<gcVars, compileVars>>
    /\ GcFrame

\* What the handler of a type returns once its parts are converted; n is
\* the id read through the member `id`.
Built(t, fields, n) ==
    CASE BaseTag(t.kind) # "" -> ZeekType("zeek_rt::create_base_type", BaseTag(t.kind), <<>>, <<>>, <<>>)
      [] t.kind = "Enum" -> ZeekType("zeek_rt::create_enum_type", "", Namespace(n), Local(n), <<>>)
      [] t.kind \in {"Struct", "Tuple", "Unit"} ->
            ZeekType("zeek_rt::create_record_type", "", Namespace(n), Local(n), fields)
      [] t.kind = "Map" -> ZeekType("zeek_rt::create_table_type", "", <<>>, <<>>, fields)
      [] t.kind = "Set" -> ZeekType("zeek_rt::create_table_type", "", <<>>, <<>>, fields)
      [] t.kind = "Vector" -> ZeekType("zeek_rt::create_vector_type", "", <<>>, <<>>, fields)

\* dispatch(t) returns: no handler, a handler without parts left to convert,
\* or the tuple handler at an unnamed element.
Vis_Handler ==
    /\ visPc = "running"
    /\ visStack # <<>>
    /\ LET fr == visStack[Len(visStack)]
           t == TypeNodes[fr.node]
           top == Len(visStack)
       IN /\ fr.phase = "dispatch"
          /\ IF ~Handled(t.kind)
             THEN /\ Return(Error(NO_SUPPORT))
             ELSE IF t.kind = "Tuple" /\ fr.k <= Len(t.subs) /\ t.subs[fr.k].name = ""
             THEN /\ visStack' = [visStack EXCEPT ![top].phase = "exit",
                                    ![top].x = Error("can only convert tuple types with all-named fields to Zeek")]
                  /\ UNCHANGED <<visRet, visPc>>
             ELSE /\ t.kind \in Composite => fr.k > Len(t.subs)
                  /\ IF t.kind = "Optional"
                     THEN /\ visStack' = [visStack EXCEPT ![top].phase = "exit",
                                                          ![top].x = Result(fr.fields[1].type)]
                          /\ UNCHANGED <<visRet, visPc>>
                     ELSE IF t.kind \in {"Enum", "Struct", "Tuple", "Unit"}
                     THEN \E d \in Deref(visId) :
                            IF d.crash
                            THEN /\ visPc' = "crashed"
                                 /\ UNCHANGED <<visStack, visRet>>
                            ELSE /\ visStack' = [visStack EXCEPT ![top].phase = "exit",
                                                    ![top].x = Result(Built(t, fr.fields, d.v))]
                                 /\ UNCHANGED <<visRet, visPc>>
                     ELSE /\ visStack' = [visStack EXCEPT ![top].phase = "exit",
                                             ![top].x = Result(Built(t, fr.fields, NoId))]
                          /\ UNCHANGED <<visRet, visPc>>
    /\ UNCHANGED <<zeek_types, visId, visRoot>>
    /\ UNCHANGED <<gcVars, compileVars>>
    /\ GcFrame

\* Mutant of Erased: nothing is removed on the way out.
Erased_kept(types, id) == types

\* `zeek_types.erase(*id)`
Erased(types, id) == types \ {id}

\* `zeek_types.erase(*id); return *x;`
Vis_Exit ==
    /\ visPc = "running"
    /\ visStack # <<>>
    /\ LET fr == visStack[Len(visStack)]
       IN /\ fr.phase = "exit"
          /\ \E d \in Deref(visId) :
                IF d.crash
                THEN /\ visPc' = "crashed"
                     /\ UNCHANGED <<visStack, visRet, zeek_types>>
                ELSE /\ zeek_types' = Erased(zeek_types, d.v)
                     /\ Return(fr.x)
    /\ UNCHANGED <<visId, visRoot>>
    /\ UNCHANGED <<gcVars, compileVars>>
    /\ GcFrame

\* VisitorZeekType(this).createZeekType(t, id): a new visitor and its call.
StartVisitor(node, id) ==
    /\ visStack' = <<Frame(node, Some(id))>>
    /\ zeek_types' = {}
    /\ visId' = None(NoId)
    /\ visRet' = NoResult
    /\ visPc' = "running"
    /\ visRoot' = node

VisIdle ==
    /\ visStack = <<>>
    /\ zeek_types = {}
    /\ visId = None(NoId)
    /\ visRet = NoResult
    /\ visPc = "idle"
    /\ visRoot = "none"

\* The types createZeekType is called on.
RootTypes == {"E", "X", "Y", "Z", "L", "A", "R", "K", "T", "F", "U", "P", "D"}

\* GlueCompiler::createZeekType(t, id) for a fully qualified id.
CreateZeekType_Call ==
    /\ visPc = "idle"
    /\ \E node \in RootTypes : StartVisitor(node, TypeNodes[node].tid)
    /\ UNCHANGED <<gcVars, compileVars>>
    /\ GcFrame

VisNext == Vis_Enter \/ Vis_Part \/ Vis_Handler \/ Vis_Exit

TypeNext == CreateZeekType_Call \/ VisNext

\* ------------------------------------------------------------------------
\* Expressions: spicy::parseExpression, WrapTryMemberVisitor, _parseArgument
\* ------------------------------------------------------------------------

\* A hilti::Expression: its class or operator, the name of the function for
\* a call, the text of an id or a literal, its operands, and the
\* catch_exception flag of a Deferred.
Expr(op, name, text, kids, flag) ==
    [op |-> op, name |-> name, text |-> text, kids |-> kids, flag |-> flag]

EId(text) == Expr("id", "", text, <<>>, FALSE)
EString(text) == Expr("string", "", text, <<>>, FALSE)
EInteger(n) == Expr("integer", "", n, <<>>, FALSE)
ECall(name, args) == Expr("call", name, <<>>, args, FALSE)
ENot(e) == Expr("not", "", <<>>, <<e>>, FALSE)
EMove(e) == Expr("move", "", <<>>, <<e>>, FALSE)
ETuple(es) == Expr("tuple", "", <<>>, es, FALSE)
EModulo(a, b) == Expr("modulo", "", <<>>, <<a, b>>, FALSE)

\* hilti::expression::Deferred(e, catch_exception)
Deferred(e, catch_exception) == Expr("Deferred", "", <<>>, <<e>>, catch_exception)

NotBlank(tok) == tok.t # " "

\* The operators of a chain after its first operand.
RECURSIVE ParseChain(_, _, _)
ParseChain(e, k, lhs) ==
    IF k > Len(e) THEN [ok |-> TRUE, expr |-> lhs]
    ELSE IF e[k].t \in {".", ".?"} /\ k + 1 <= Len(e) /\ e[k + 1].t = "id"
    THEN ParseChain(e, k + 2,
                    Expr(IF e[k].t = "." THEN "Member" ELSE "TryMember", "", <<>>,
                         <<lhs, EId(e[k + 1].s)>>, FALSE))
    ELSE [ok |-> FALSE, expr |-> lhs]

\* spicy::parseExpression on the expressions of the .evt files: an id
\* followed by member accesses `.id` and `.?id`.
ParseExpression(expression) ==
    LET e == SelectSeq(expression, NotBlank) IN
    IF e = <<>> \/ e[1].t # "id" THEN [ok |-> FALSE, expr |-> EId(<<>>)]
    ELSE ParseChain(e, 2, EId(e[1].s))

\* Mutant of Wrapped: every member access is deferred.
Wrapped_all(n, catch_exception) ==
    IF n.op \in {"Member", "TryMember"} THEN Deferred(n, catch_exception) ELSE n

\* WrapTryMemberVisitor::operator(): a TryMember operator becomes a
\* Deferred expression around it.
Wrapped(n, catch_exception) ==
    IF n.op = "TryMember" THEN Deferred(n, catch_exception) ELSE n

\* The walk of the visitor over the expression, operands first.
RECURSIVE WrapTryMember(_, _)
WrapTryMember(n, catch_exception) ==
    Wrapped([n EXCEPT !.kids = [i \in 1..Len(n.kids) |-> WrapTryMember(n.kids[i], catch_exception)]],
            catch_exception)

\* _parseArgument once spicy::parseExpression has returned e.
Argument(e, catch_exception) ==
    IF ~e.ok THEN [ok |-> FALSE, expr |-> e.expr, msg |-> "error parsing event argument expression"]
    ELSE [ok |-> TRUE, expr |-> WrapTryMember(e.expr, catch_exception), msg |-> ""]

\* _parseArgument
ParseArgument(expression, catch_exception) == Argument(ParseExpression(expression), catch_exception)

\* ------------------------------------------------------------------------
\* GlueCompiler::CreateSpicyHook
\* ------------------------------------------------------------------------

\* A declaration of a module: an import, a global, a function or a unit
\* hook, with the fields each kind uses and its set of attributes.
Decl(kind, id, from, body, attrs) ==
    [kind |-> kind, id |-> id, from |-> from, body |-> body, attrs |-> attrs]

\* hilti::builder::import(id, ext) and hilti::declaration::ImportedModule
Import(id, ext, path, scope, dirs) ==
    Decl("import", id, [ext |-> ext, path |-> path, scope |-> scope, dirs |-> dirs], <<>>, {})

ZEEK_RT == <<"z", "e", "e", "k", "_", "r", "t">>
HILTI == <<"h", "i", "l", "t", "i">>

\* A statement of a body: what it is and the expression it holds.
Stmt(stmt, expr) == [stmt |-> stmt, expr |-> expr]

\* std::hash<glue::Event>: a value that tells the events apart.
Hash(ev) == [file |-> ev.file, location |-> ev.location, name |-> ev.name, path |-> ev.path]

\* `__zeek_handler_<mangled_event_name>`
HandlerId(ev) == [name |-> Replace(ev.name, SCOPE, <<"_">>), hash |-> Hash(ev)]

DollarToks == {"$conn", "$file", "$packet", "$is_orig", "$other"}

\* hilti::util::startsWith(e.expression, "$")
StartsWithDollar(expression) == expression # <<>> /\ expression[1].t \in DollarToks

\* `if ( auto expr = _parseArgument(...) ) ... else ... "<error>"`
DebugArgOf(parsed) == IF parsed.ok THEN parsed.expr ELSE EString("<error>")

\* The argument of the debug message for one accessor.
DebugArg(e) == IF StartsWithDollar(e) THEN EString(e) ELSE DebugArgOf(ParseArgument(e, TRUE))

\* fmt_args: the name of the event, then one argument per accessor.
DebugArgs(ev) ==
    <<EString(ev.name)>> \o
    [k \in 1..Len(ev.expression_accessors) |-> DebugArg(ev.expression_accessors[k].expression)]

\* The call of zeek_rt::debug with the format string and its arguments.
DebugStmt(fmt_args) ==
    Stmt("expression",
         ECall("zeek_rt::debug",
               <<EModulo(EString([ctrls |-> Len(fmt_args) - 1]), ETuple(fmt_args))>>))

\* The hook under construction: whether CreateSpicyHook is still going, the
\* message of its error, what it has added to the hook module, and the body.
HookBuilder(decls) == [ok |-> TRUE, msg |-> "", decls |-> decls, body |-> <<>>]

HookFails(b, msg) == [b EXCEPT !.ok = FALSE, !.msg = msg]

\* Mutant of AddStmt: the statement is put at the head of the body.
AddStmt_front(b, stmt) == IF ~b.ok THEN b ELSE [b EXCEPT !.body = <<stmt>> \o @]

AddStmt(b, stmt) == IF ~b.ok THEN b ELSE [b EXCEPT !.body = Append(@, stmt)]

\* The global `__zeek_handler_...` of the event.
HandlerDecl(ev) ==
    Decl("global", HandlerId(ev), <<>>,
         <<Stmt("init", ECall("zeek_rt::internal_handler", <<EString(ev.name)>>))>>, {})

\* Mutant of UnitImport: the hook module gets no import for the event.
UnitImport_none(ev) == <<>>

\* `ImportedModule(ev->unit_module_id, ev->unit_module_path)`, added to the
\* event's hook module.
UnitImport(ev) == <<Import(ev.unit_module_id, "", ev.unit_module_path, NoId, {})>>

\* `if ( ! cond ) { error; return false; }` and the `if` of the body.
Conditioned(b, cond) ==
    IF ~cond.ok THEN HookFails(b, "error parsing conditional expression")
    ELSE AddStmt(b, Stmt("if-return", ENot(cond.expr)))

\* `if ( ev->condition.size() ) { ... }`
AddCondition(b, ev) ==
    IF ev.condition = <<>> THEN b ELSE Conditioned(b, ParseExpression(ev.condition))

\* `if ( _driver->hiltiOptions().debug ) { ... }`
AddDebug(b, ev, debug) == IF debug THEN AddStmt(b, DebugStmt(DebugArgs(ev))) ELSE b

\* The exit without a handler, and the local `args`.
AddHaveHandler(b, ev) ==
    AddStmt(AddStmt(b, Stmt("if-return",
                            ENot(ECall("zeek_rt::have_handler", <<EId(HandlerId(ev))>>)))),
            Stmt("local", EId(<<"a", "r", "g", "s">>)))

\* zeek_rt::to_val of a parsed argument, or the error of its parse.
ToVal(ev, acc, i, parsed) ==
    IF ~parsed.ok THEN [ok |-> FALSE, val |-> parsed.expr, msg |-> parsed.msg]
    ELSE [ok |-> TRUE,
          val |-> ECall("zeek_rt::to_val",
                        <<parsed.expr,
                          ECall("zeek_rt::event_arg_type",
                                <<EId(HandlerId(ev)), EInteger(i), EString(acc.location)>>),
                          EString(acc.location)>>),
          msg |-> ""]

Current(fn, acc) == [ok |-> TRUE, val |-> ECall(fn, <<EString(acc.location)>>), msg |-> ""]

\* The value pushed for one accessor: a current_* call, or to_val of the
\* parsed expression; an error for an unknown '$' name or a parse error.
ArgVal(ev, acc, i) ==
    IF acc.expression = <<Tok("$conn")>> THEN Current("zeek_rt::current_conn", acc)
    ELSE IF acc.expression = <<Tok("$file")>> THEN Current("zeek_rt::current_file", acc)
    ELSE IF acc.expression = <<Tok("$packet")>> THEN Current("zeek_rt::current_packet", acc)
    ELSE IF acc.expression = <<Tok("$is_orig")>> THEN Current("zeek_rt::current_is_orig", acc)
    ELSE IF StartsWithDollar(acc.expression)
    THEN [ok |-> FALSE, val |-> EString(acc.expression), msg |-> "unknown reserved parameter"]
    ELSE ToVal(ev, acc, i, ParseArgument(acc.expression, FALSE))

\* `body.addMemberCall(builder::id("args"), "push_back", {val}, meta)`
Pushed(b, v) == IF ~v.ok THEN HookFails(b, v.msg) ELSE AddStmt(b, Stmt("push_back", v.val))

\* The loop over the accessors from the k-th on, up to the first error.
RECURSIVE PushArgs(_, _, _)
PushArgs(b, ev, k) ==
    IF ~b.ok \/ k > Len(ev.expression_accessors) THEN b
    ELSE PushArgs(Pushed(b, ArgVal(ev, ev.expression_accessors[k], k - 1)), ev, k + 1)

\* `body.addCall("zeek_rt::raise_event", ...)`
AddRaise(b, ev) ==
    AddStmt(b, Stmt("call", ECall("zeek_rt::raise_event",
                                  <<EId(HandlerId(ev)), EMove(EId(<<"a", "r", "g", "s">>)),
                                    EString(ev.location)>>)))

\* hilti::Attribute(name, value)
Attribute(name, value) == [name |-> name, value |-> value]

\* `auto attrs = hilti::AttributeSet({hilti::Attribute("&priority", ...)})`
PriorityAttrs(ev) == {Attribute("&priority", ev.priority)}

\* The attributes CreateSpicyHook gives to spicy::Hook: `attrs` is built
\* from the priority of the event and not used again; the hook is
\* constructed with `{}` in the place of its attributes.
HookAttrs(attrs) == {}

\* spicy::declaration::UnitHook(id, spicy::Hook({}, body, engine, attrs))
UnitHook(id, body, engine, attrs) ==
    Decl("hook", id, [engine |-> engine], body, attrs)

\* The unit hook with the body built for the event.
AddHook(b, ev) ==
    IF ~b.ok THEN b
    ELSE [b EXCEPT !.decls = Append(@, UnitHook(ev.hook, b.body, "All",
                                                HookAttrs(PriorityAttrs(ev))))]

\* CreateSpicyHook(ev): what it adds to the hook module of the event, and
\* whether it returns true.
CreateSpicyHook(ev, debug) ==
    AddHook(AddRaise(PushArgs(AddHaveHandler(AddDebug(AddCondition(
        HookBuilder(UnitImport(ev) \o <<HandlerDecl(ev)>>), ev), ev, debug), ev), ev, 1), ev), ev)

\* ------------------------------------------------------------------------
\* GlueCompiler::compile
\* ------------------------------------------------------------------------

\* What Driver::lookupType knows: every type of the grammar that has an id,
\* with the module it is declared in.
DriverTypes ==
    [id \in {TypeNodes[n].tid : n \in DOMAIN TypeNodes} \ {NoId} |->
        LET n == CHOOSE n \in DOMAIN TypeNodes : TypeNodes[n].tid = id
        IN [kind |-> TypeNodes[n].kind, module_id |-> Namespace(id),
            module_path |-> SpicyModuleFiles[Namespace(id)], node |-> n]]

\* The driver as compile() finds it: hiltiOptions().debug and the types
\* that types(true) lists, in its order; with each, the version of the host
\* the plugin is built into.
DriverSetups ==
    { [debug |-> FALSE, types |-> <<"E", "X", "Z">>, zeek_version |-> 50200],
      [debug |-> TRUE, types |-> <<"Y", "R">>, zeek_version |-> 50100],
      [debug |-> TRUE, types |-> <<>>, zeek_version |-> 50200] }

\* A statement of preinit_body: a call of fn for the declaration `name`.
Call(fn, name, args) == [fn |-> fn, name |-> name, args |-> args]

NoArgs == [none |-> TRUE]

\* Mutant of AddCall: the call is put in front of the body.
AddCall_front(body, fn, name, args) == <<Call(fn, name, args)>> \o body

\* `preinit_body.addCall(fn, {...})`: the call becomes the last statement.
AddCall(body, fn, name, args) == Append(body, Call(fn, name, args))

CANNOT_EXPORT == "cannot export Spicy type"

\* The result of a loop of compile(): "ok", "error" (`return false`) or
\* "abort" (internalError); the list and the body as the loop leaves them.
LoopResult(status, list, body, msg) ==
    [status |-> status, list |-> list, body |-> body, msg |-> msg]

\* PopulateEvents from the k-th event on.
RECURSIVE PopulateFrom(_, _, _, _)
Resolved(evs, k, mods, types, r) ==
    IF r.status # "ok" THEN LoopResult(r.status, [evs EXCEPT ![k] = r.ev], mods, r.msg)
    ELSE PopulateFrom([evs EXCEPT ![k] = r.ev], k + 1,
                      [mods EXCEPT ![r.ev.unit_module_id].evts = @ \cup {r.ev.file}],
                      types)

PopulateFrom(evs, k, mods, types) ==
    IF k > Len(evs) THEN LoopResult("ok", evs, mods, "")
    ELSE IF evs[k].unit_type # NoType THEN PopulateFrom(evs, k + 1, mods, types)
    ELSE Resolved(evs, k, mods, types, ResolveEvent(evs[k], types, DOMAIN mods))

\* `for ( auto& a : _protocol_analyzers )` from the k-th analyzer on.
RECURSIVE ProtocolAnalyzersFrom(_, _, _, _)
ProtocolAnalyzersFrom(as, k, body, types) ==
    IF k > Len(as) THEN LoopResult("ok", as, body, "")
    ELSE LET a == as[k]
             orig == LookupUnit(types, a.unit_name_orig)
             resp == LookupUnit(types, a.unit_name_resp)
             a1 == IF a.unit_name_orig # NoId THEN [a EXCEPT !.unit_orig = orig.info] ELSE a
             a2 == IF a.unit_name_resp # NoId THEN [a1 EXCEPT !.unit_resp = resp.info] ELSE a1
             called == AddCall(body, "zeek_rt::register_protocol_analyzer", a.name,
                               [protocol |-> a.protocol, ports |-> a.ports,
                                unit_name_orig |-> a.unit_name_orig,
                                unit_name_resp |-> a.unit_name_resp, replaces |-> a.replaces])
         IN IF a.unit_name_orig # NoId /\ ~orig.ok
            THEN LoopResult("error", as, body, "error with protocol analyzer")
            ELSE IF a.unit_name_resp # NoId /\ ~resp.ok
            THEN LoopResult("error", [as EXCEPT ![k] = a1], body, "error with protocol analyzer")
            ELSE IF a.protocol \notin {"tcp", "udp"}
            THEN LoopResult("abort", [as EXCEPT ![k] = a2], body, "unexpected protocol")
            ELSE ProtocolAnalyzersFrom([as EXCEPT ![k] = a2], k + 1, called, types)

\* `for ( auto& a : _file_analyzers )` from the k-th analyzer on.
RECURSIVE FileAnalyzersFrom(_, _, _, _)
FileAnalyzersFrom(as, k, body, types) ==
    IF k > Len(as) THEN LoopResult("ok", as, body, "")
    ELSE LET a == as[k]
             ui == LookupUnit(types, a.unit_name)
             a1 == IF a.unit_name # NoId THEN [a EXCEPT !.unit = ui.info] ELSE a
             called == AddCall(body, "zeek_rt::register_file_analyzer", a.name,
                               [mime_types |-> a.mime_types, unit_name |-> a.unit_name,
                                replaces |-> a.replaces])
         IN IF a.unit_name # NoId /\ ~ui.ok
            THEN LoopResult("error", as, body, "error with file analyzer")
            ELSE FileAnalyzersFrom([as EXCEPT ![k] = a1], k + 1, called, types)

\* `for ( auto& a : _packet_analyzers )` from the k-th analyzer on.
RECURSIVE PacketAnalyzersFrom(_, _, _, _)
PacketAnalyzersFrom(as, k, body, types) ==
    IF k > Len(as) THEN LoopResult("ok", as, body, "")
    ELSE LET a == as[k]
             ui == LookupUnit(types, a.unit_name)
             a1 == IF a.unit_name # NoId THEN [a EXCEPT !.unit = ui.info] ELSE a
             called == AddCall(body, "zeek_rt::register_packet_analyzer", a.name,
                               [unit_name |-> a.unit_name, replaces |-> a.replaces])
         IN IF a.unit_name # NoId /\ ~ui.ok
            THEN LoopResult("error", as, body, "error with packet analyzer")
            ELSE PacketAnalyzersFrom([as EXCEPT ![k] = a1], k + 1, called, types)

\* `for ( auto&& ev : _events ) if ( ! CreateSpicyHook(&ev) ) return false;`
\* from the k-th event on; the list is the hook modules.
RECURSIVE SpicyHooksFrom(_, _, _, _)
HookCreated(evs, k, mods, debug, h) ==
    IF ~h.ok
    THEN LoopResult("error", [mods EXCEPT ![evs[k].spicy_module].spicy_module = @ \o h.decls],
                    <<>>, h.msg)
    ELSE SpicyHooksFrom(evs, k + 1, [mods EXCEPT ![evs[k].spicy_module].spicy_module = @ \o h.decls],
                        debug)

SpicyHooksFrom(evs, k, mods, debug) ==
    IF k > Len(evs) THEN LoopResult("ok", mods, <<>>, "")
    ELSE HookCreated(evs, k, mods, debug, CreateSpicyHook(evs[k], debug))

\* Mutant of ModuleOrder: the loop over _spicy_modules leaves out the
\* module N.
ModuleOrder_first == SelectSeq(<<ID_M>>, LAMBDA id : id \in DOMAIN spicy_modules)

\* The keys of _spicy_modules in the order std::map iterates over them.
ModuleOrder == SelectSeq(<<ID_M, ID_N>>, LAMBDA id : id \in DOMAIN spicy_modules)

\* The imports compile() adds to a hook module: the runtime module and one
\* import per entry of _imports.
ModuleImports(m) ==
    <<Import(ZEEK_RT, ".hlt", <<>>, NoId, {})>> \o
    [k \in 1..Len(imports) |->
        Import(imports[k].module, ".spicy", <<>>, imports[k].scope, {p.dir : p \in m.evts})]

\* A unit handed to Driver::addInput.
Input(name, ext, decls) == [name |-> name, ext |-> ext, decls |-> decls]

\* The messages of the check that all exports are accounted for.
ExportErrors(seen) ==
    LET missing == SelectSeq(exports, LAMBDA e : e.id \notin seen)
    IN [k \in 1..Len(missing) |->
           IF Namespace(missing[k].id) = NoId
           THEN Logged("exported type must provide namespace", missing[k].id)
           ELSE Logged("unknown type exported", missing[k].id)]

CompileInit ==
    /\ driver \in DriverSetups
    /\ inputs = <<>>
    /\ pc = "idle"
    /\ init_module = <<>>
    /\ preinit_body = <<>>
    /\ typeIdx = 1
    /\ log = <<>>
    /\ compiled = "none"

CompileIdle ==
    /\ driver = [debug |-> FALSE, types |-> <<>>]
    /\ inputs = <<>>
    /\ pc = "idle"
    /\ init_module = <<>>
    /\ preinit_body = <<>>
    /\ typeIdx = 1
    /\ log = <<>>
    /\ compiled = "none"

\* The store without the lists a step of compile() writes.
StoreKept == <<imports, exports, locations, loaded>>

\* compile() up to the call of PopulateEvents.
Compile_Begin ==
    /\ pc = "idle"
    /\ init_module' = <<Import(ZEEK_RT, ".hlt", <<>>, NoId, {}),
                        Import(HILTI, ".hlt", <<>>, NoId, {}),
                        Decl("function", <<"zeek_spicy_plugin_version">>, <<>>, <<>>, {})>>
    /\ preinit_body' = <<Call("zeek_spicy_plugin_version", <<>>, NoArgs)>>
    /\ spicy_modules' = [id \in DOMAIN spicy_modules |-> [spicy_modules[id] EXCEPT !.spicy_module = <<>>]]
    /\ pc' = "populate"
    /\ UNCHANGED <<protocol_analyzers, file_analyzers, packet_analyzers, events, StoreKept>>
    /\ UNCHANGED <<driver, inputs, typeIdx, log, compiled>>
    /\ UNCHANGED visVars
    /\ GcFrame

\* What a loop of compile() does to pc, log and the result of compile().
LoopEnds(r, next) ==
    /\ pc' = IF r.status = "ok" THEN next ELSE "done"
    /\ log' = IF r.status = "ok" THEN log ELSE Append(log, Logged(r.msg, NoId))
    /\ compiled' = CASE r.status = "ok" -> compiled
                     [] r.status = "error" -> "false"
                     [] r.status = "abort" -> "abort"

PopulateEventsDone(r) ==
    /\ events' = r.list
    /\ spicy_modules' = r.body
    /\ LoopEnds(r, "protocol")

\* `if ( ! PopulateEvents() ) return false;`
Compile_PopulateEvents ==
    /\ pc = "populate"
    /\ PopulateEventsDone(PopulateFrom(events, 1, spicy_modules, DriverTypes))
    /\ UNCHANGED <<protocol_analyzers, file_analyzers, packet_analyzers, StoreKept>>
    /\ UNCHANGED <<driver, inputs, init_module, preinit_body, typeIdx>>
    /\ UNCHANGED visVars
    /\ GcFrame

ProtocolAnalyzersDone(r) ==
    /\ protocol_analyzers' = r.list
    /\ preinit_body' = r.body
    /\ LoopEnds(r, "file")

\* The loop over _protocol_analyzers.
Compile_ProtocolAnalyzers ==
    /\ pc = "protocol"
    /\ ProtocolAnalyzersDone(ProtocolAnalyzersFrom(protocol_analyzers, 1, preinit_body, DriverTypes))
    /\ UNCHANGED <<file_analyzers, packet_analyzers, events, spicy_modules, StoreKept>>
    /\ UNCHANGED <<driver, inputs, init_module, typeIdx>>
    /\ UNCHANGED visVars
    /\ GcFrame

FileAnalyzersDone(r) ==
    /\ file_analyzers' = r.list
    /\ preinit_body' = r.body
    /\ LoopEnds(r, "packet")

\* The loop over _file_analyzers.
Compile_FileAnalyzers ==
    /\ pc = "file"
    /\ FileAnalyzersDone(FileAnalyzersFrom(file_analyzers, 1, preinit_body, DriverTypes))
    /\ UNCHANGED <<protocol_analyzers, packet_analyzers, events, spicy_modules, StoreKept>>
    /\ UNCHANGED <<driver, inputs, init_module, typeIdx>>
    /\ UNCHANGED visVars
    /\ GcFrame

PacketAnalyzersDone(r) ==
    /\ packet_analyzers' = r.list
    /\ preinit_body' = r.body
    /\ LoopEnds(r, "hooks")

\* The loop over _packet_analyzers.
Compile_PacketAnalyzers ==
    /\ pc = "packet"
    /\ PacketAnalyzersDone(PacketAnalyzersFrom(packet_analyzers, 1, preinit_body, DriverTypes))
    /\ UNCHANGED <<protocol_analyzers, file_analyzers, events, spicy_modules, StoreKept>>
    /\ UNCHANGED <<driver, inputs, init_module, typeIdx>>
    /\ UNCHANGED visVars
    /\ GcFrame

CreateSpicyHooksDone(r) ==
    /\ spicy_modules' = r.list
    /\ LoopEnds(r, "handlers")

\* The loop over CreateSpicyHook.
Compile_CreateSpicyHooks ==
    /\ pc = "hooks"
    /\ CreateSpicyHooksDone(SpicyHooksFrom(events, 1, spicy_modules, driver.debug))
    /\ UNCHANGED <<protocol_analyzers, file_analyzers, packet_analyzers, events, StoreKept>>
    /\ UNCHANGED <<driver, inputs, init_module, preinit_body, typeIdx>>
    /\ UNCHANGED visVars
    /\ GcFrame

\* `for ( auto&& ev : _events ) preinit_body.addCall("zeek_rt::install_handler", ...)`
\* from the k-th event on.
RECURSIVE InstallHandlersFrom(_, _, _)
InstallHandlersFrom(evs, k, body) ==
    IF k > Len(evs) THEN body
    ELSE InstallHandlersFrom(evs, k + 1,
                             AddCall(body, "zeek_rt::install_handler", evs[k].name, NoArgs))

\* The loop that registers the events.
Compile_InstallHandlers ==
    /\ pc = "handlers"
    /\ preinit_body' = InstallHandlersFrom(events, 1, preinit_body)
    /\ pc' = "types"
    /\ UNCHANGED gcVars
    /\ UNCHANGED <<driver, inputs, init_module, typeIdx, log, compiled>>
    /\ UNCHANGED visVars
    /\ GcFrame

\* `createZeekType(ti.type, ti.id)` for the next type of types(true).
Compile_ExportType ==
    /\ pc = "types"
    /\ typeIdx <= Len(driver.types)
    /\ visPc = "idle"
    /\ LET node == driver.types[typeIdx]
           id == TypeNodes[node].tid
       IN IF Namespace(id) # NoId
          THEN StartVisitor(node, id)
          ELSE /\ visRet' = Error("exported ID must be fully qualified")
               /\ visPc' = "returned"
               /\ UNCHANGED <<visStack, zeek_types, visId, visRoot>>
    /\ UNCHANGED gcVars
    /\ UNCHANGED compileVars
    /\ GcFrame

\* The body of the loop over types(true) after createZeekType has returned.
Compile_TypeDone ==
    /\ pc = "types"
    /\ visPc = "returned"
    /\ LET id == TypeNodes[driver.types[typeIdx]].tid
       IN /\ preinit_body' = IF visRet.ok
                             THEN AddCall(preinit_body, "zeek_rt::register_type", id,
                                          [ns |-> Namespace(id), local |-> Local(id),
                                           type |-> visRet.val])
                             ELSE preinit_body
          /\ log' = IF visRet.ok THEN log ELSE Append(log, Logged(CANNOT_EXPORT, id))
    /\ typeIdx' = typeIdx + 1
    /\ visPc' = "idle"
    /\ UNCHANGED <<visStack, zeek_types, visId, visRet, visRoot>>
    /\ UNCHANGED gcVars
    /\ UNCHANGED <<driver, inputs, init_module, pc, compiled>>
    /\ GcFrame

\* compile() after the loop over types(true): the check of the exports, the
\* hook modules, the preinit function, and `return true`.
Compile_Finish ==
    /\ pc = "types"
    /\ typeIdx > Len(driver.types)
    /\ visPc = "idle"
    /\ LET seen == {TypeNodes[driver.types[k]].tid : k \in 1..Len(driver.types)}
           mods == [id \in DOMAIN spicy_modules |->
                       [spicy_modules[id] EXCEPT !.spicy_module = @ \o ModuleImports(spicy_modules[id])]]
           preinit == Decl("function", <<"zeek_preinit">>, <<>>, preinit_body, {})
       IN /\ log' = log \o ExportErrors(seen)
          /\ spicy_modules' = mods
          /\ init_module' = IF preinit_body # <<>> THEN Append(init_module, preinit) ELSE init_module
          /\ inputs' = inputs \o
                       [k \in 1..Len(ModuleOrder) |->
                           Input(<<"spicy_hooks_">> \o ModuleOrder[k], ".spicy",
                                 mods[ModuleOrder[k]].spicy_module)] \o
                       <<Input(<<"spicy_init">>, ".hlt", init_module')>>
    /\ compiled' = "true"
    /\ pc' = "done"
    /\ UNCHANGED <<protocol_analyzers, file_analyzers, packet_analyzers, events, StoreKept>>
    /\ UNCHANGED <<driver, preinit_body, typeIdx>>
    /\ UNCHANGED visVars
    /\ GcFrame

Compile ==
    \/ Compile_Begin
    \/ Compile_PopulateEvents
    \/ Compile_ProtocolAnalyzers
    \/ Compile_FileAnalyzers
    \/ Compile_PacketAnalyzers
    \/ Compile_CreateSpicyHooks
    \/ Compile_InstallHandlers
    \/ Compile_ExportType
    \/ Compile_TypeDone
    \/ Compile_Finish

Next ==
    \/ \E f \in Files : LoadEvtFile(f)
    \/ \E id \in DOMAIN SpicyModuleFiles : AddSpicyModule(id)
    \/ Compile
    \/ VisNext

\* ------------------------------------------------------------------------
\* Expressions of an event statement: extract_expr within parseEvent
\* ------------------------------------------------------------------------

\* Longest argument text extract_expr is run on.
MaxExpr == 4

\* The tokens of the argument texts: the brackets, the comma, a word and a
\* blank.
ExprToks ==
    {Tok("("), Tok(")"), Tok("["), Tok("]"), Tok("{"), Tok("}"), Tok(","), Id(<<"a">>), Tok(" ")}

NotCalled == [st |-> "none", msg |-> "", expr |-> <<>>, i |-> 0]

\* What a parser leaves to its caller: returned or thrown, the text and *i.
Outcome3(p) == [st |-> p.st, msg |-> p.msg, expr |-> p.expr, i |-> p.i]

\* on M::U -> event e(ARGS;
EventWith(args) ==
    <<Tok("on"), SP, Id(M_U), SP, Tok("->"), SP, Tok("event"), SP, Id(<<"e">>), Tok("(")>>
    \o args \o <<Tok(";")>>

ExprInit ==
    /\ exChunk \in SeqsUpTo(ExprToks, MaxExpr)
    /\ exExpr = NotCalled
    /\ exEvent = NotCalled

ExprIdle ==
    /\ exChunk = <<>>
    /\ exExpr = NotCalled
    /\ exEvent = NotCalled

\* ------------------------------------------------------------------------
\* Runtime support: rt::raise_event
\* ------------------------------------------------------------------------

\* The longest argument vector, and the most parameters of a handler.
MaxArgs == 2

\* The calls of raise_event that enqueue, at most.
MaxQueue == 2

\* A ::zeek::ValPtr that holds no value.
NULLVAL == "null"

\* The values of the arguments.
Vals == {NULLVAL, "v"}

\* A ::zeek::EventHandlerPtr: GetType()->ParamList()->GetTypes() has
\* `params` entries.
Handler(name, params) == [name |-> name, params |-> params]

NoHandler == Handler("", 0)

Handlers == {Handler("ev", n) : n \in 0..MaxArgs}

\* What ::zeek::event_mgr.Enqueue(handler, vl) is given.
Enqueued(handler, vl) == [handler |-> handler.name, args |-> vl]

\* Mutant of ArityMismatch: the number of arguments is not compared.
ArityMismatch_never(args, handler) == FALSE

\* `args.size() != static_cast<uint64_t>(zeek_args.size())`
ArityMismatch(args, handler) == Len(args) # handler.params

RaiseIdle ==
    /\ rtHandler = NoHandler
    /\ rtArgs = <<>>
    /\ rtVl = <<>>
    /\ rtI = 1
    /\ rtPc = "idle"
    /\ rtErr = ""
    /\ rtQueue = <<>>

\* rt::raise_event(handler, args, location) is called.
RaiseEvent_Call ==
    /\ rtPc \in {"idle", "returned", "thrown"}
    /\ Len(rtQueue) < MaxQueue
    /\ rtHandler' \in Handlers
    /\ rtArgs' \in SeqsUpTo(Vals, MaxArgs)
    /\ rtVl' = <<>>
    /\ rtI' = 1
    /\ rtPc' = "arity"
    /\ rtErr' = ""
    /\ UNCHANGED rtQueue
    /\ RaiseFrame

\* The comparison of the sizes, and `::zeek::Args vl`.
RaiseEvent_Arity ==
    /\ rtPc = "arity"
    /\ IF ArityMismatch(rtArgs, rtHandler)
       THEN rtPc' = "thrown" /\ rtErr' = "TypeMismatch"
       ELSE rtPc' = "loop" /\ rtErr' = rtErr
    /\ UNCHANGED <<rtHandler, rtArgs, rtVl, rtI, rtQueue>>
    /\ RaiseFrame

\* One iteration of `for ( const auto& v : args )`.
RaiseEvent_Arg ==
    /\ rtPc = "loop"
    /\ rtI <= Len(rtArgs)
    /\ IF rtArgs[rtI] # NULLVAL
       THEN /\ rtVl' = Append(rtVl, rtArgs[rtI])
            /\ rtI' = rtI + 1
            /\ UNCHANGED <<rtPc, rtErr>>
       ELSE /\ rtPc' = "thrown"
            /\ rtErr' = "InvalidValue"
            /\ UNCHANGED <<rtVl, rtI>>
    /\ UNCHANGED <<rtHandler, rtArgs, rtQueue>>
    /\ RaiseFrame

\* `::zeek::event_mgr.Enqueue(handler, vl);`
RaiseEvent_Enqueue ==
    /\ rtPc = "loop"
    /\ rtI > Len(rtArgs)
    /\ rtQueue' = Append(rtQueue, Enqueued(rtHandler, rtVl))
    /\ rtPc' = "returned"
    /\ UNCHANGED <<rtHandler, rtArgs, rtVl, rtI, rtErr>>
    /\ RaiseFrame

RaiseNext ==
    \/ RaiseEvent_Call
    \/ RaiseEvent_Arity
    \/ RaiseEvent_Arg
    \/ RaiseEvent_Enqueue

\* ------------------------------------------------------------------------
\* Runtime support: rt::cookie::FileStateStack, rt::file_begin, rt::file_end
\* and the file operations between them
\* ------------------------------------------------------------------------

\* The calls of file_begin, at most.
MaxFiles == 3

\* _analyzer_id of the stack.
ANALYZER_ID == "CAn"

\* hilti::rt::fmt("%s.%d", _analyzer_id, n)
Handle(analyzer_id, n) == <<analyzer_id, ".", n>>

\* ::zeek::file_mgr->HashHandle(handle): the digest of the handle, taken
\* to differ for handles that differ.
HashHandle(handle) == <<"#">> \o handle

\* No fid: the empty std::optional<std::string> of an argument.
NoFid == <<>>

\* A fid no file_begin of this stack returns.
UNKNOWN_FID == <<"#", "other", ".", 1>>

\* The fid arguments of the calls.
FidArgs == {NoFid, UNKNOWN_FID} \cup {HashHandle(Handle(ANALYZER_ID, n)) : n \in 1..MaxFiles}

NoMime == ""

MimeTypes == {NoMime, "text/plain"}

\* rt::cookie::FileState
FileState(fid, mime_type) == [fid |-> fid, mime_type |-> mime_type]

\* FileStateStack::find(fid): the position of the entry the reverse search
\* stops at, 0 for nullptr.
FindState(stack, fid) ==
    LET hits == {i \in 1..Len(stack) : stack[i].fid = fid}
    IN IF hits = {} THEN 0 ELSE CHOOSE i \in hits : \A j \in hits : j <= i

\* Mutant of Remove: the entry on top is taken off, whatever its fid.
Remove_top(stack, fid) == IF stack = <<>> THEN stack ELSE SubSeq(stack, 1, Len(stack) - 1)

\* FileStateStack::remove(fid)
Remove(stack, fid) ==
    IF FindState(stack, fid) = 0 THEN stack
    ELSE SubSeq(stack, 1, FindState(stack, fid) - 1) \o SubSeq(stack, FindState(stack, fid) + 1, Len(stack))

\* _file_state(cookie, fid): the position of the entry returned, or the
\* exception thrown.
FileStateAt(stack, fid) ==
    IF fid # NoFid
    THEN IF FindState(stack, fid) # 0 THEN [ok |-> TRUE, at |-> FindState(stack, fid)]
         ELSE [ok |-> FALSE, at |-> 0]
    ELSE IF stack = <<>> THEN [ok |-> FALSE, at |-> 0]
         ELSE [ok |-> TRUE, at |-> Len(stack)]

\* A call, its fid argument, how it ended and the fid of the entry it
\* worked on.
FileCall(op, arg, result, fid) == [op |-> op, arg |-> arg, result |-> result, fid |-> fid]

Unavailable(op, arg) == FileCall(op, arg, "ValueUnavailable", NoFid)

FileIdle ==
    /\ fsStack = <<>>
    /\ fsCounter = 0
    /\ fsLast = FileCall("none", NoFid, "ok", NoFid)
    /\ fsBegun = <<>>
    /\ fsEnded = {}

\* rt::file_begin(mime_type): push(), the mime type, and the empty chunk
\* fed through _data_in to the entry on top.
File_Begin(mime_type) ==
    /\ fsCounter < MaxFiles
    /\ LET fid == HashHandle(Handle(ANALYZER_ID, fsCounter + 1))
           pushed == Append(fsStack, FileState(fid, mime_type))
       IN /\ fsCounter' = fsCounter + 1
          /\ fsStack' = pushed
          /\ fsLast' = FileCall("file_begin", NoFid, "ok", pushed[FileStateAt(pushed, NoFid).at].fid)
          /\ fsBegun' = Append(fsBegun, fid)
    /\ UNCHANGED fsEnded
    /\ FileFrame

\* rt::file_data_in, rt::file_data_in_at_offset, rt::file_set_size and
\* rt::file_gap with fid: the entry _file_state returns is the one the file
\* manager is told about.
File_Op(fid) ==
    /\ fsLast' = IF FileStateAt(fsStack, fid).ok
                 THEN FileCall("file_op", fid, "ok", fsStack[FileStateAt(fsStack, fid).at].fid)
                 ELSE Unavailable("file_op", fid)
    /\ UNCHANGED <<fsStack, fsCounter, fsBegun, fsEnded>>
    /\ FileFrame

\* rt::file_end(fid)
File_End(fid) ==
    /\ IF FileStateAt(fsStack, fid).ok
       THEN LET fstate == fsStack[FileStateAt(fsStack, fid).at]
            IN /\ fsStack' = Remove(fsStack, fstate.fid)
               /\ fsEnded' = fsEnded \cup {fstate.fid}
               /\ fsLast' = FileCall("file_end", fid, "ok", fstate.fid)
       ELSE /\ fsLast' = Unavailable("file_end", fid)
            /\ UNCHANGED <<fsStack, fsEnded>>
    /\ UNCHANGED <<fsCounter, fsBegun>>
    /\ FileFrame

FileNext ==
    \/ \E mime_type \in MimeTypes : File_Begin(mime_type)
    \/ \E fid \in FidArgs : File_Op(fid)
    \/ \E fid \in FidArgs : File_End(fid)

RestIdle == ExprIdle /\ RaiseIdle /\ FileIdle

\* extract_expr(chunk, &i) with the cursor at the start of the text.
ExtractExpr_Call ==
    /\ exExpr.st = "none"
    /\ exExpr' = Outcome3(GetExpr(Parser(exChunk, <<>>)))
    /\ UNCHANGED <<exChunk, exEvent>>
    /\ ExprFrame

\* parseEvent on the event statement whose argument list is the text.
ParseEvent_Call ==
    /\ exEvent.st = "none"
    /\ exEvent' = Outcome3(ParseEvent(EventWith(exChunk), Location(FileA.path, 1), FileA.path))
    /\ UNCHANGED <<exChunk, exExpr>>
    /\ ExprFrame

ExprNext ==
    \/ ExtractExpr_Call
    \/ ParseEvent_Call

\* ------------------------------------------------------------------------
\* Specifications
\* ------------------------------------------------------------------------

Idle == StoreInit /\ CompileIdle /\ VisIdle /\ RestIdle

InitScan == ScanInit /\ PpIdle /\ PortIdle /\ IdIdle /\ Idle
SpecScan == InitScan /\ [][ScanNext]_vars

InitPP == PpInit /\ ScanIdle /\ PortIdle /\ IdIdle /\ Idle
SpecPP == InitPP /\ [][PpNext]_vars

InitPorts == PortInit /\ ScanIdle /\ PpIdle /\ IdIdle /\ Idle
SpecPorts == InitPorts /\ [][PortNext]_vars

InitId == IdInit /\ ScanIdle /\ PpIdle /\ PortIdle /\ Idle
SpecId == InitId /\ [][IdNext]_vars

InitExpr ==
    /\ ExprInit /\ RaiseIdle /\ FileIdle
    /\ ScanIdle /\ PpIdle /\ PortIdle /\ IdIdle /\ StoreInit /\ CompileIdle /\ VisIdle
SpecExpr == InitExpr /\ [][ExprNext]_vars

InitRuntime == ScanIdle /\ PpIdle /\ PortIdle /\ IdIdle /\ Idle

SpecRaise == InitRuntime /\ [][RaiseNext]_vars

SpecFiles == InitRuntime /\ [][FileNext]_vars

InitType == VisIdle /\ StoreInit /\ CompileIdle /\ ScanIdle /\ PpIdle /\ PortIdle /\ IdIdle /\ RestIdle
SpecType == InitType /\ [][TypeNext]_vars

Init ==
    /\ StoreInit /\ CompileInit /\ VisIdle
    /\ ScanIdle /\ PpRest /\ PortIdle /\ IdIdle /\ RestIdle
    /\ zeek_version \in ZeekVersions
    /\ zeek_version = driver.zeek_version
Spec == Init /\ [][Next]_vars

\* ------------------------------------------------------------------------
\* Claims
\* ------------------------------------------------------------------------

\* C1: a ';' read in state InString or InComment never ends the chunk (the
\* call keeps running), and a ';' read in state Default always ends it (the
\* call returns the chunk or the error "empty block"), whatever prev is.
C1_SemicolonEndsChunkOnlyInDefault ==
    [][(blockResult.kind = "running" /\ inpos < Len(input) /\ input[inpos + 1] = SEMICOLON)
        => IF state = "Default"
           THEN blockResult'.kind \in {"chunk", "error"}
           ELSE blockResult' = Running /\ state' = state]_vars

\* A returned chunk that holds a ';' before its final one: that ';' was read
\* inside a string and kept, and the later ';' in Default ended the chunk.
C1_Witness ==
    /\ blockResult.kind = "chunk"
    /\ \E k \in 1..(Len(blockResult.value) - 1) : blockResult.value[k] = SEMICOLON

\* C2: when preprocessEvtFile returns without error, the output has as many
\* lines as the input, and its k-th line is the k-th input line verbatim if
\* that line is no directive and was read in state Include, and is empty if
\* the line is a directive or was read in state Skip.
C2_LinePreserving ==
    ppStatus = "done" =>
        LET inL == GetLines(ppIn)
            outL == GetLines(ppOut)
        IN /\ Len(outL) = Len(inL)
           /\ Len(ppSeen) = Len(inL)
           /\ \A k \in 1..Len(inL) :
                /\ ppSeen[k].line = inL[k]
                /\ outL[k] = IF ~StartsWithAt(Trim(inL[k])) /\ ppSeen[k].st = "Include"
                             THEN inL[k]
                             ELSE <<>>

\* A finished run that blanked a directive, blanked a non-empty line read in
\* state Skip and copied a non-empty line read in state Include.
C2_Witness ==
    /\ ppStatus = "done"
    /\ \E i, j, k \in 1..Len(ppSeen) :
          /\ StartsWithAt(Trim(ppSeen[i].line))
          /\ ppSeen[j].st = "Skip" /\ ppSeen[j].line = <<"x">>
          /\ ppSeen[k].st = "Include" /\ ppSeen[k].line = <<" ", "y", " ">>

\* The tokens of a chunk that are no blanks.
NonBlank(c) == SelectSeq(c, LAMBDA x : x.t # " ")

\* The chunk is `N/P-M/Q` with both numbers valid ports.
IsRangeChunk(c) ==
    LET w == NonBlank(c) IN
    /\ Len(w) >= 7
    /\ w[1].t = "num" /\ w[1].v <= MaxPort /\ w[2].t = "/" /\ w[3].t \in Protocols
    /\ w[4].t = "-"
    /\ w[5].t = "num" /\ w[5].v <= MaxPort /\ w[6].t = "/" /\ w[7].t \in Protocols

\* C3: a range extract_ports returns a list for has endpoints of one
\* transport with start <= end, and the list is start, start+1, ..., end in
\* ascending order, each with that transport; a range whose endpoints differ
\* in transport or whose start is after its end ends in a parse error; a
\* single port gives a list of one element.
C3_PortRange ==
    LET w == NonBlank(portChunk) IN
    /\ (portPc = "returned" /\ portEnd # NoPort) =>
          /\ portStart.proto = portEnd.proto
          /\ portStart.port <= portEnd.port
          /\ Len(portResult) = portEnd.port - portStart.port + 1
          /\ \A k \in 1..Len(portResult) :
                portResult[k] = [port |-> portStart.port + k - 1, proto |-> portStart.proto]
          /\ IsRangeChunk(portChunk)
          /\ portStart = [port |-> w[1].v, proto |-> w[3].t]
          /\ portEnd = [port |-> w[5].v, proto |-> w[7].t]
    /\ (portPc = "returned" /\ portEnd = NoPort) =>
          /\ portResult = <<[port |-> w[1].v, proto |-> w[3].t]>>
          /\ w[4].t # "-"
    /\ (portPc # "start" /\ IsRangeChunk(portChunk) /\ (w[3].t # w[7].t \/ w[1].v > w[5].v)) =>
          /\ portPc = "error"
          /\ portResult = <<>>

\* A returned range of more than two ports that ends below the last port.
C3_Witness ==
    /\ portPc = "returned"
    /\ portEnd # NoPort
    /\ Len(portResult) > 2

\* The characters of s with each '%' spelled "0x25_", all others kept.
RECURSIVE Encoded(_)
Encoded(s) ==
    IF s = <<>> THEN <<>>
    ELSE (IF Head(s) = "%" THEN ENCODED ELSE <<Head(s)>>) \o Encoded(Tail(s))

\* The run of identifier characters extract_id scans in a chunk.
ScannedRun(c) == SubSeq(c, EatSpaceChars(c, 1), IdRunEnd(c, EatSpaceChars(c, 1)) - 1)

\* C8: the identifier extract_id returns holds no '%': it is the scanned run
\* with each '%' replaced by one "0x25_" and every other character kept in
\* order; resolution leaves the stored path as it is, and the hook is that
\* path or the path with "::0x25_done" appended, never encoded again.
C8_PercentEncodedOnce ==
    /\ idPc \in {"extracted", "resolved", "failed"} =>
          /\ \A k \in 1..Len(idOut) : idOut[k] # "%"
          /\ idOut = Encoded(ScannedRun(idChunk))
          /\ idEv.path = idOut
    /\ idPc = "resolved" =>
          \/ idEv.hook = idOut /\ idEv.unit = Namespace(idOut)
          \/ idEv.hook = idOut \o SCOPE \o DONE_HOOK /\ idEv.unit = idOut

\* A resolved event whose path was scanned with two '%' in it.
C8_Witness ==
    /\ idPc = "resolved"
    /\ Len(SelectSeq(ScannedRun(idChunk), LAMBDA c : c = "%")) >= 2
    /\ idEv.hook # idEv.path

\* ------------------------------------------------------------------------

\* PopulateEvents has returned true: compile() is past it.
PopulateEventsSucceeded ==
    \/ pc \in {"protocol", "file", "packet", "hooks", "handlers", "types"}
    \/ compiled = "true"

\* The event has been resolved by PopulateEvents.
IsResolved(ev) == ev.unit_type # NoType

\* The hook of the event has one of the two forms, and the form goes with
\* what names the unit: the path itself, or the namespace of the path.
HookFormOk(ev) ==
    \/ ev.unit = ev.path /\ ev.hook = IdJoin(ev.unit, DONE_HOOK)
    \/ ev.unit = Namespace(ev.path) /\ ev.hook = ev.path

\* C4: once PopulateEvents has succeeded every event is resolved; the unit
\* of every resolved event names a type of the driver of unit kind, and its
\* hook is the path when the namespace of the path names the unit, and the
\* unit followed by "::0x25_done" when the path names the unit. No event
\* whose unit is a type of another kind is ever resolved.
C4_ResolvedEventsNameUnits ==
    /\ PopulateEventsSucceeded => \A k \in 1..Len(events) : IsResolved(events[k])
    /\ \A k \in 1..Len(events) :
          IsResolved(events[k]) =>
              /\ events[k].unit \in DOMAIN DriverTypes
              /\ DriverTypes[events[k].unit].kind = "Unit"
              /\ events[k].unit_type.kind = "Unit"
              /\ HookFormOk(events[k])

\* PopulateEvents has succeeded on a list with an event of each form.
C4_Witness ==
    /\ PopulateEventsSucceeded
    /\ \E j, k \in 1..Len(events) :
          /\ events[j].unit = events[j].path
          /\ events[j].hook = IdJoin(events[j].path, DONE_HOOK)
          /\ events[k].unit = Namespace(events[k].path)
          /\ events[k].hook = events[k].path

\* ------------------------------------------------------------------------

\* The group a statement of the preinit body belongs to.
Rank(fn) ==
    CASE fn = "zeek_spicy_plugin_version" -> 0
      [] fn = "zeek_rt::register_protocol_analyzer" -> 1
      [] fn = "zeek_rt::register_file_analyzer" -> 2
      [] fn = "zeek_rt::register_packet_analyzer" -> 3
      [] fn = "zeek_rt::install_handler" -> 4
      [] fn = "zeek_rt::register_type" -> 5

\* The declarations the calls of fn in the preinit body are for, in order.
CallsOf(fn) ==
    LET sel == SelectSeq(preinit_body, LAMBDA c : c.fn = fn)
    IN [k \in 1..Len(sel) |-> sel[k].name]

NamesOf(list) == [k \in 1..Len(list) |-> list[k].name]

\* The ids of the types of the driver, in the order of types(true).
DriverTypeIds == [k \in 1..Len(driver.types) |-> TypeNodes[driver.types[k]].tid]

\* s is t without some of its elements.
IsSubSeqOf(s, t) == s = SelectSeq(t, LAMBDA x : \E j \in 1..Len(s) : s[j] = x)

\* C5: in the preinit body of a successful compile() the first statement
\* is the one call of the version function; then come the registrations of
\* the protocol analyzers, the file analyzers, the packet analyzers, the
\* event handlers and the types, in this order, each group in the order of
\* its list; and this body is the body of zeek_preinit in the init module.
C5_PreinitOrder ==
    compiled = "true" =>
        /\ preinit_body # <<>>
        /\ preinit_body[1].fn = "zeek_spicy_plugin_version"
        /\ \A i \in 2..Len(preinit_body) : Rank(preinit_body[i].fn) >= 1
        /\ \A i \in 1..Len(preinit_body) : \A j \in i..Len(preinit_body) :
              Rank(preinit_body[i].fn) <= Rank(preinit_body[j].fn)
        /\ CallsOf("zeek_rt::register_protocol_analyzer") = NamesOf(protocol_analyzers)
        /\ CallsOf("zeek_rt::register_file_analyzer") = NamesOf(file_analyzers)
        /\ CallsOf("zeek_rt::register_packet_analyzer") = NamesOf(packet_analyzers)
        /\ CallsOf("zeek_rt::install_handler") = NamesOf(events)
        /\ IsSubSeqOf(CallsOf("zeek_rt::register_type"), DriverTypeIds)
        /\ init_module[Len(init_module)].id = <<"zeek_preinit">>
        /\ init_module[Len(init_module)].body = preinit_body
        /\ inputs[Len(inputs)].decls = init_module

\* A successful compile() with a call in every group, and several in the
\* groups of the file analyzers, the events and the types.
C5_Witness ==
    /\ compiled = "true"
    /\ Len(CallsOf("zeek_rt::register_protocol_analyzer")) >= 1
    /\ Len(CallsOf("zeek_rt::register_packet_analyzer")) >= 1
    /\ Len(CallsOf("zeek_rt::register_file_analyzer")) >= 2
    /\ file_analyzers[1].name # file_analyzers[2].name
    /\ Len(CallsOf("zeek_rt::install_handler")) >= 2
    /\ events[1].name # events[2].name
    /\ Len(CallsOf("zeek_rt::register_type")) >= 2

\* ------------------------------------------------------------------------

\* The types of RootTypes that refer to themselves by id: directly (X, Y),
\* through the elements of a vector (L), through another struct (A), and
\* through the values of a map (K).
SelfReferential == {"X", "Y", "L", "A", "K"}

\* The calls of createZeekType in progress that have passed the test for
\* recursion on the type the visitor was started on.
RootCallsInProgress ==
    {k \in 1..Len(visStack) : visStack[k].node = visRoot /\ visStack[k].phase # "enter"}

\* C6: createZeekType on a type that refers to itself ends, and with the
\* error "type is self-recursive": the process does not end in it, the type
\* is never taken up a second time while its conversion is in progress,
\* and what the call returns is that error.
C6_SelfRecursiveIsDetected ==
    visRoot \in SelfReferential =>
        /\ visPc # "crashed"
        /\ Cardinality(RootCallsInProgress) <= 1
        /\ visPc = "returned" => visRet = Error(SELF_RECURSIVE)

\* ------------------------------------------------------------------------

\* C7: when the projection of an exported type has failed, the preinit
\* body has no register_type call for that type and compile() does not
\* return true.
C7_FailedProjectionFailsCompile ==
    \A k \in 1..Len(log) :
        log[k].msg = CANNOT_EXPORT =>
            /\ \A j \in 1..Len(preinit_body) :
                  preinit_body[j].fn = "zeek_rt::register_type" => preinit_body[j].name # log[k].id
            /\ compiled # "true"

\* ------------------------------------------------------------------------

\* The import declarations of a module, in order.
ImportsOf(decls) == SelectSeq(decls, LAMBDA d : d.kind = "import")

\* What an import names: the module and the scope.
ImportKey(id, scope) == [id |-> id, scope |-> scope]

KeysOf(imps) == [k \in 1..Len(imps) |-> ImportKey(imps[k].id, imps[k].from.scope)]

\* The runtime module and the import directives, in the order compile()
\* adds them.
RuntimeAndDirectives ==
    <<ImportKey(ZEEK_RT, NoId)>> \o
    [k \in 1..Len(imports) |-> ImportKey(imports[k].module, imports[k].scope)]

\* The hook modules among the inputs of the driver.
HookInputs == {k \in 1..Len(inputs) : inputs[k].ext = ".spicy"}

\* The id of the Spicy module a hook module is for.
ModuleOf(unit) == Tail(unit.name)

\* C9 as stated: the imports of every hook module are the runtime module
\* and one import per import directive, and nothing else.
C9_OnlyRuntimeAndDirectives ==
    compiled = "true" =>
        \A k \in HookInputs : KeysOf(ImportsOf(inputs[k].decls)) = RuntimeAndDirectives

\* C9: the imports of every hook module are the runtime module, one import
\* per import directive, and, imported by the path of its file, the Spicy
\* module of the unit of every event whose hook is in the hook module;
\* nothing else.
C9_ImportsOfHookModule ==
    compiled = "true" =>
        \A k \in HookInputs :
            /\ KeysOf(SelectSeq(ImportsOf(inputs[k].decls), LAMBDA d : d.from.path = <<>>))
                  = RuntimeAndDirectives
            /\ {[id |-> d.id, path |-> d.from.path] :
                    d \in {inputs[k].decls[j] : j \in {i \in 1..Len(inputs[k].decls) :
                            /\ inputs[k].decls[i].kind = "import"
                            /\ inputs[k].decls[i].from.path # <<>>}}}
                  = {[id |-> events[j].unit_module_id, path |-> events[j].unit_module_path] :
                        j \in {i \in 1..Len(events) : events[i].spicy_module = ModuleOf(inputs[k])}}

\* A hook module with the hook of an event, generated with an import
\* directive that has a scope.
C9_Witness ==
    /\ compiled = "true"
    /\ \E k \in HookInputs :
          /\ \E j \in 1..Len(events) : events[j].spicy_module = ModuleOf(inputs[k])
          /\ \E j \in 1..Len(imports) : imports[j].scope # NoId

\* ------------------------------------------------------------------------

\* The step is a call of loadEvtFile that has caught a ParseError.
LoadFailsToParse ==
    /\ Len(loaded') = Len(loaded) + 1
    /\ Len(log') = Len(log) + 1

\* C10: a call of loadEvtFile that ends with a parse error returns false
\* and leaves the list of events as it was: no event of the file is in it,
\* and the events of the files loaded before are, in their order.
C10_FailedLoadKeepsEvents ==
    [][LoadFailsToParse => ~loaded'[Len(loaded')].returned /\ events' = events]_vars

\* After a file whose events are in the list, a file has failed to parse
\* after some of its events had been parsed.
C10_Witness ==
    /\ Len(loaded) = 2
    /\ loaded[1].returned /\ loaded[1].parsed > 0
    /\ ~loaded[2].returned /\ loaded[2].parsed > 0
    /\ Len(log) = 1
    /\ Len(events) = loaded[1].parsed

\* ------------------------------------------------------------------------

\* The file with that path.
FileAt(path) == CHOOSE f \in Files : f.path = path

\* The statements of a file that begin with "on", in the order of the text.
OnChunks(f) == SelectSeq(f.chunks, LAMBDA ch : ch.toks[1].t = "on")

\* The name an "on" statement gives after the word "event", as written.
DeclaredName(toks) ==
    LET k == CHOOSE k \in 1..Len(toks) : toks[k].t = "event"
        j == CHOOSE j \in (k + 1)..Len(toks) :
                 toks[j].t = "id" /\ \A i \in (k + 1)..(j - 1) : toks[i].t = " "
    IN toks[j].s

\* The event declarations of a file as its text has them: name, file, line.
Declared(f) ==
    [k \in 1..Len(OnChunks(f)) |->
        [name |-> DeclaredName(OnChunks(f)[k].toks), file |-> f.path, line |-> OnChunks(f)[k].line]]

\* The declarations of the files of the calls from the k-th on, in order.
RECURSIVE DeclaredFrom(_, _)
DeclaredFrom(loads, k) ==
    IF k > Len(loads) THEN <<>>
    ELSE Declared(FileAt(loads[k].file)) \o DeclaredFrom(loads, k + 1)

\* C11: when every call of loadEvtFile so far has returned true, the list
\* of events is, event for event, what the files declare: the events of the
\* file loaded first in the order of its text, then those of the second, and
\* so on; none is missing, moved or there twice.
C11_EventsInLoadOrder ==
    (\A k \in 1..Len(loaded) : loaded[k].returned) =>
        [k \in 1..Len(events) |->
            [name |-> events[k].name, file |-> events[k].file, line |-> events[k].location.line]]
        = DeclaredFrom(loaded, 1)

\* Three files loaded with success, the first with two events, the next of
\* another name with one.
C11_Witness ==
    /\ Len(loaded) = 3
    /\ \A k \in 1..3 : loaded[k].returned /\ loaded[k].parsed > 0
    /\ loaded[1].parsed = 2
    /\ loaded[1].file # loaded[2].file
    /\ Len(events) = 4

\* ------------------------------------------------------------------------

\* The statement of its file an event was parsed from.
ChunkOf(ev) ==
    LET f == FileAt(ev.file)
    IN f.chunks[CHOOSE k \in 1..Len(f.chunks) : f.chunks[k].line = ev.location.line].toks

\* The number written after "&priority =" in a statement; -1000 when the
\* statement has no "&priority".
PriorityInText(toks) ==
    IF \E k \in 1..Len(toks) : toks[k].t = "&priority"
    THEN toks[CHOOSE j \in 1..Len(toks) :
                 /\ toks[j].t = "num"
                 /\ \E k \in 1..(j - 1) : toks[k].t = "&priority"].v
    ELSE -1000

\* CreateSpicyHook has returned true for every event.
HooksCreated == pc \in {"handlers", "types"} \/ compiled = "true"

HooksOf(m) == SelectSeq(spicy_modules[m].spicy_module, LAMBDA d : d.kind = "hook")

EventsOf(m) == SelectSeq(events, LAMBDA ev : ev.spicy_module = m)

\* C12: once the hooks are created, every hook module has one unit hook
\* per event of the module, in the order of the events; the hook of an event
\* is for the event's hook id, its engine is All, and it carries the
\* attribute &priority with the priority of the event, which is the number
\* the statement gives after "&priority =", and -1000 for a statement
\* without it.
C12_HookPriorityEngineTarget ==
    HooksCreated =>
        \A m \in DOMAIN spicy_modules :
            /\ Len(HooksOf(m)) = Len(EventsOf(m))
            /\ \A j \in 1..Len(EventsOf(m)) :
                  /\ HooksOf(m)[j].id = EventsOf(m)[j].hook
                  /\ HooksOf(m)[j].from.engine = "All"
                  /\ HooksOf(m)[j].attrs = {Attribute("&priority", EventsOf(m)[j].priority)}
                  /\ EventsOf(m)[j].priority = PriorityInText(ChunkOf(EventsOf(m)[j]))

\* ------------------------------------------------------------------------

\* The calls of loadEvtFile on the file with the clause "port 6000-6002/tcp".
RangeLoads == {k \in 1..Len(loaded) : loaded[k].file = FileRange.path}

\* C13: the analyzer declared with "port 6000-6002/tcp" is accepted, with
\* the ports 6000/tcp, 6001/tcp, 6002/tcp in this order: the call of
\* loadEvtFile on its file returns true and the analyzer is in the list of
\* protocol analyzers with these ports.
C13_BareStartOfRangeAccepted ==
    \A k \in RangeLoads :
        /\ loaded[k].returned
        /\ \E j \in 1..Len(protocol_analyzers) :
              /\ protocol_analyzers[j].name = <<"R">>
              /\ protocol_analyzers[j].ports =
                    <<[port |-> 6000, proto |-> "tcp"], [port |-> 6001, proto |-> "tcp"],
                      [port |-> 6002, proto |-> "tcp"]>>

\* ------------------------------------------------------------------------

\* The statement at a location.
ChunkAt(loc) ==
    LET f == FileAt(loc.path)
    IN f.chunks[CHOOSE k \in 1..Len(f.chunks) : f.chunks[k].line = loc.line].toks

\* The places of a statement where "parse with" is written without a
\* direction: the index of the unit's id.
UndirectedParse(toks) ==
    {j \in 5..Len(toks) :
        /\ toks[j].t = "id" /\ toks[j - 2].t = "with" /\ toks[j - 4].t = "parse"}

\* C14: every protocol analyzer that parseProtocolAnalyzer has returned, and
\* so every one in the list, has the unit of the originator or the unit of
\* the responder set; one declared with "parse with UNIT" has both set to
\* UNIT.
C14_ProtocolAnalyzerHasUnit ==
    \A k \in 1..Len(protocol_analyzers) :
        /\ \/ protocol_analyzers[k].unit_name_orig # NoId
           \/ protocol_analyzers[k].unit_name_resp # NoId
        /\ \A j \in UndirectedParse(ChunkAt(protocol_analyzers[k].location)) :
              /\ protocol_analyzers[k].unit_name_orig = ChunkAt(protocol_analyzers[k].location)[j].s
              /\ protocol_analyzers[k].unit_name_resp = ChunkAt(protocol_analyzers[k].location)[j].s


\* PopulateEvents has ended compile() on an event it could not resolve.
ResolutionFailed ==
    /\ compiled = "false"
    /\ Len(log) > 0
    /\ log[Len(log)].msg \in {"unknown unit type", "unit type missing in hook"}

\* The event names a unit of a module the compiler knows: an iteration of
\* the loop of PopulateEvents resolves it.
Resolvable(ev) == ResolveEvent(ev, DriverTypes, DOMAIN spicy_modules).status = "ok"

\* C15: an event that cannot be resolved is not fatal for the others: when
\* compile() has returned false on a resolution error, every event that can
\* be resolved has been resolved.
C15_ResolutionContinues ==
    ResolutionFailed => \A k \in 1..Len(events) : Resolvable(events[k]) => IsResolved(events[k])


\* What a call of getNextEvtBlock hands back.
BlockResult(kind, value, msg) == [kind |-> kind, value |-> value, msg |-> msg]

\* The outcome the iteration must produce, from the end of the stream, the
\* scanner state, the character read and the trimmed chunk alone.
Outcome(in, pos, st, trimmed) ==
    IF pos = Len(in)
    THEN IF trimmed = <<>> THEN BlockResult("eof", <<>>, "")
         ELSE BlockResult("error", <<>>, "unexpected end of file")
    ELSE IF st = "Default" /\ in[pos + 1] = SEMICOLON
    THEN IF trimmed = <<>> THEN BlockResult("error", <<>>, "empty block")
         ELSE BlockResult("chunk", trimmed \o <<SEMICOLON>>, "")
    ELSE Running

\* C16: the terminal outcomes of the chunk scanner. The end of the input
\* with an empty trimmed chunk gives the empty string, also inside a comment;
\* the end of the input with a non-empty trimmed chunk, also inside a
\* string, fails with "unexpected end of file"; a terminating ';' with an
\* empty trimmed chunk fails with "empty block"; any other terminating ';'
\* gives the trimmed chunk with ';' appended. No other iteration returns.
C16_TerminalOutcomes ==
    [][blockResult.kind = "running" =>
          blockResult' = Outcome(input, inpos, state, Trim(chunk))]_vars

\* A second call, after the chunk `a;`, has met the end of the input inside
\* a comment and returned the empty string.
C16_Witness ==
    /\ blockResult.kind = "eof"
    /\ state = "InComment"
    /\ Len(input) >= 3
    /\ input[1] = "a"
    /\ input[2] = SEMICOLON


REPLACES_NEEDS_5_2 == "packet analyzer replacement requires Zeek 5.2+"

\* The step is a call of loadEvtFile that parsePacketAnalyzer has ended
\* with the ParseError of its 'replaces' clause.
LoadFailsAtReplaces ==
    /\ Len(loaded') = Len(loaded) + 1
    /\ Len(log') = Len(log) + 1
    /\ log'[Len(log')].msg = REPLACES_NEEDS_5_2

\* Every packet analyzer of the list that replaces another one was parsed
\* by a host of version 5.2 or later.
ReplacesOnlySince52 ==
    \A k \in 1..Len(packet_analyzers) :
        packet_analyzers[k].replaces # NoId => zeek_version >= 50200

\* C17: a packet analyzer with a 'replaces' clause is in the list of packet
\* analyzers only if the host version is at least 50200; with a lower
\* version the clause is a parse error: loadEvtFile returns false and the
\* list of packet analyzers is as it was.
C17_ReplacesNeedsVersion ==
    /\ []ReplacesOnlySince52
    /\ [][(zeek_version < 50200 /\ Len(loaded') = Len(loaded) + 1
              /\ loaded'[Len(loaded')].file = FileB.path)
             => LoadFailsAtReplaces]_vars
    /\ [][LoadFailsAtReplaces
             => /\ ~loaded'[Len(loaded')].returned
                /\ packet_analyzers' = packet_analyzers]_vars

\* A host of version 5.1 has refused the file with `replaces Q`, after a
\* file it has accepted: the packet analyzer P is not in the list.
C17_Witness ==
    /\ zeek_version = 50100
    /\ Len(loaded) = 2
    /\ loaded[1].returned
    /\ loaded[2].file = FileB.path
    /\ ~loaded[2].returned
    /\ Len(log) = 1
    /\ log[1].msg = REPLACES_NEEDS_5_2
    /\ packet_analyzers = <<>>


\* The step is a call of loadEvtFile on the file whose @if is not closed.
LoadsOpenIf ==
    /\ Len(loaded') = Len(loaded) + 1
    /\ loaded'[Len(loaded')].file = FileOpenIf.path

\* The lists of declarations the chunks of a file are stored in.
Declarations ==
    <<protocol_analyzers, file_analyzers, packet_analyzers, events, imports, exports>>

\* C18: when the input ends with an @if still open, loadEvtFile fails with
\* a parse error and, the whole file being preprocessed before its first
\* chunk is parsed, no declaration of the file is added to the store.
C18_OpenIfAddsNothing ==
    [][LoadsOpenIf
          => /\ ~loaded'[Len(loaded')].returned
             /\ Len(log') = Len(log) + 1
             /\ log'[Len(log')].msg = "unterminated preprocessor directive"
             /\ Declarations' = Declarations]_vars

\* A host for which the open @if is taken has refused the file, after a
\* file with imports it has accepted: the import K of the refused file is
\* not among the imports.
C18_Witness ==
    /\ zeek_version = 50200
    /\ Len(loaded) = 2
    /\ loaded[1].returned
    /\ loaded[2].file = FileOpenIf.path
    /\ ~loaded[2].returned
    /\ Len(imports) > 0
    /\ \A k \in 1..Len(imports) : imports[k].module # <<"K">>


\* The newline characters among the first n characters of a stream.
RECURSIVE Newlines(_, _)
Newlines(in, n) ==
    IF n = 0 THEN 0
    ELSE Newlines(in, n - 1) + (IF in[n] = NEWLINE THEN 1 ELSE 0)

\* The line of the n-th character of a stream, lines counted from 1.
LineOf(in, n) == 1 + Newlines(in, n - 1)

\* The line loadEvtFile records for the chunk a call has returned:
\* `_locations.emplace_back(path, lineno)` after the call.
RecordedLine == lineno

\* C19: over the calls of getNextEvtBlock on one stream the line counter is
\* incremented once for every newline consumed, in state Default, InString
\* and InComment alike: it is its initial value plus the number of newlines
\* consumed so far, and the line recorded for a statement is the line of the
\* input its terminating ';' is on.
C19_LinenoCountsNewlines ==
    /\ blockResult.kind # "idle" => lineno = 1 + Newlines(input, inpos)
    /\ blockResult.kind = "chunk" => RecordedLine = LineOf(input, inpos)

\* A statement has been returned whose ';' is on line 3, after a newline
\* that ended a comment and a newline read in state Default.
C19_Witness ==
    /\ blockResult.kind = "chunk"
    /\ input[1] = HASH
    /\ input[inpos] = SEMICOLON
    /\ RecordedLine = 3


\* In the expression e, found under an expression of class `under`, every
\* TryMember operator is the operand of a Deferred, and every Deferred is
\* around a TryMember operator and carries `flag` as its catch_exception.
RECURSIVE WellDeferred(_, _, _)
WellDeferred(e, under, flag) ==
    /\ e.op = "TryMember" => under = "Deferred"
    /\ e.op = "Deferred" => e.flag = flag /\ e.kids[1].op = "TryMember"
    /\ \A i \in 1..Len(e.kids) : WellDeferred(e.kids[i], e.op, flag)

\* The number of Deferred expressions in an expression.
RECURSIVE DeferredIn(_)
RECURSIVE DeferredInKids(_, _)
DeferredIn(e) == (IF e.op = "Deferred" THEN 1 ELSE 0) + DeferredInKids(e.kids, 1)

DeferredInKids(kids, k) ==
    IF k > Len(kids) THEN 0 ELSE DeferredIn(kids[k]) + DeferredInKids(kids, k + 1)

\* The number of Deferred expressions in the statements `kind` of a body.
RECURSIVE DeferredInBody(_, _, _)
DeferredInBody(stmts, kind, k) ==
    IF k > Len(stmts) THEN 0
    ELSE (IF stmts[k].stmt = kind THEN DeferredIn(stmts[k].expr) ELSE 0)
         + DeferredInBody(stmts, kind, k + 1)

\* The number of '.?' operators in the text of a sequence of arguments.
RECURSIVE TryAccesses(_, _)
TryAccesses(exprs, k) ==
    IF k > Len(exprs) THEN 0
    ELSE Len(SelectSeq(exprs[k], LAMBDA tok : tok.t = ".?")) + TryAccesses(exprs, k + 1)

\* The hook built for an event defers every '.?' of the event's arguments:
\* without catching in the arguments pushed for the event, and catching in
\* the arguments of the debug message.
HookDefers(hook, ev, debug) ==
    /\ \A k \in 1..Len(hook.body) :
          /\ hook.body[k].stmt = "push_back" => WellDeferred(hook.body[k].expr, "none", FALSE)
          /\ hook.body[k].stmt = "expression" => WellDeferred(hook.body[k].expr, "none", TRUE)
    /\ DeferredInBody(hook.body, "push_back", 1) = TryAccesses(ev.exprs, 1)
    /\ DeferredInBody(hook.body, "expression", 1) = IF debug THEN TryAccesses(ev.exprs, 1) ELSE 0

\* C20: in the hook of an event, every TryMember operator of an argument
\* written with '.?' is replaced by a Deferred around that operator; the
\* Deferred of the argument marshalled into the event has catch_exception
\* false, the Deferred of the argument of the debug message has
\* catch_exception true.
C20_TryMemberDeferred ==
    HooksCreated =>
        \A m \in DOMAIN spicy_modules :
            \A j \in 1..Len(HooksOf(m)) :
                j <= Len(EventsOf(m)) => HookDefers(HooksOf(m)[j], EventsOf(m)[j], driver.debug)

\* The hooks are created, with the debug message, for an event with the
\* argument `y.?z`: its hook has a Deferred in the argument it pushes and
\* one in the debug message.
C20_Witness ==
    /\ HooksCreated
    /\ driver.debug
    /\ \E m \in DOMAIN spicy_modules :
          \E j \in 1..Len(HooksOf(m)) :
              /\ TryAccesses(EventsOf(m)[j].exprs, 1) = 1
              /\ DeferredInBody(HooksOf(m)[j].body, "push_back", 1) = 1
              /\ DeferredInBody(HooksOf(m)[j].body, "expression", 1) = 1


\* The kinds of the statements of a body, in order.
KindsOf(stmts) == [k \in 1..Len(stmts) |-> stmts[k].stmt]

\* `n` times the statement kind "push_back".
Pushes(n) == [k \in 1..n |-> "push_back"]

\* The kinds of the statements the hook of an event is to have, in order.
ExpectedKinds(ev, debug) ==
    (IF ev.condition # <<>> THEN <<"if-return">> ELSE <<>>)
    \o (IF debug THEN <<"expression">> ELSE <<>>)
    \o <<"if-return", "local">>
    \o Pushes(Len(ev.exprs))
    \o <<"call">>

\* The statement is the guard `if ( ! have_handler(...) ) return`.
IsHandlerGuard(s) ==
    /\ s.stmt = "if-return"
    /\ s.expr.op = "not"
    /\ s.expr.kids[1].op = "call"
    /\ s.expr.kids[1].name = "zeek_rt::have_handler"

\* The push_back statement is the one of the k-th argument of the event.
IsPushOf(s, ev, k) ==
    IF ev.exprs[k] = <<Tok("$conn")>> THEN s.expr.name = "zeek_rt::current_conn"
    ELSE /\ s.expr.name = "zeek_rt::to_val"
         /\ s.expr.kids[2].kids[2] = EInteger(k - 1)

\* The position of the guard on the handler in the body of the event's hook.
GuardAt(ev, debug) ==
    1 + (IF ev.condition # <<>> THEN 1 ELSE 0) + (IF debug THEN 1 ELSE 0)

HookInOrder(hook, ev, debug) ==
    /\ KindsOf(hook.body) = ExpectedKinds(ev, debug)
    /\ ev.condition # <<>> => ~IsHandlerGuard(hook.body[1])
    /\ debug => hook.body[GuardAt(ev, debug) - 1].expr.name = "zeek_rt::debug"
    /\ IsHandlerGuard(hook.body[GuardAt(ev, debug)])
    /\ \A k \in 1..Len(ev.exprs) : IsPushOf(hook.body[GuardAt(ev, debug) + 1 + k], ev, k)
    /\ hook.body[Len(hook.body)].expr.name = "zeek_rt::raise_event"

\* C21: the statements of every generated hook body are, in this order: the
\* guard on the condition when the event has one, the debug call when the
\* driver is in debug mode, the guard on have_handler, the local `args`,
\* one push_back per argument in the order of the arguments, and the call
\* of raise_event last.
C21_HookBodyOrder ==
    HooksCreated =>
        \A m \in DOMAIN spicy_modules :
            \A j \in 1..Len(HooksOf(m)) :
                j <= Len(EventsOf(m)) => HookInOrder(HooksOf(m)[j], EventsOf(m)[j], driver.debug)

\* In debug mode the hooks are created for an event with a condition and an
\* argument, and for an event with two arguments and no condition.
C21_Witness ==
    /\ HooksCreated
    /\ driver.debug
    /\ \E m \in DOMAIN spicy_modules :
          \E i, j \in 1..Len(HooksOf(m)) :
              /\ EventsOf(m)[i].condition # <<>>
              /\ Len(HooksOf(m)[i].body) = 6
              /\ EventsOf(m)[j].condition = <<>>
              /\ Len(EventsOf(m)[j].exprs) = 2
              /\ Len(HooksOf(m)[j].body) = 6


\* C22: extract_ports terminates for every valid range, also one that ends
\* at 65535: the 16-bit counter of the loop never wraps around past the end
\* of the range, and the result never has more than end - start + 1 entries.
C22_RangeLoopEnds ==
    (portPc \in {"loop", "returned"} /\ portEnd # NoPort) =>
        /\ portCounter >= portStart.port
        /\ Len(portResult) <= portEnd.port - portStart.port + 1


\* compile() has ended in the internal error of the switch on the transport.
UnexpectedProtocol ==
    /\ compiled = "abort"
    /\ Len(log) > 0
    /\ log[Len(log)].msg = "unexpected protocol"

\* The loop of compile() over the protocol analyzers has run to its end.
ProtocolAnalyzersRegistered == pc \in {"file", "packet", "hooks", "handlers", "types"} \/ compiled = "true"

\* The calls of preinit that register a protocol analyzer of that name.
RegistrationsOf(name) ==
    SelectSeq(preinit_body,
              LAMBDA c : c.fn = "zeek_rt::register_protocol_analyzer" /\ c.name = name)

\* C23: for a protocol analyzer of any of the transports the parser accepts,
\* TCP, UDP and ICMP, a compile() whose unit lookups succeed does not end in
\* an internal error and appends the call register_protocol_analyzer for
\* it to preinit.
C23_EveryTransportRegistered ==
    /\ ~UnexpectedProtocol
    /\ ProtocolAnalyzersRegistered =>
          \A k \in 1..Len(protocol_analyzers) :
              Len(RegistrationsOf(protocol_analyzers[k].name)) >= 1


Openers == {"(", "[", "{"}
Closers == {")", "]", "}"}

\* The closer that belongs to an opener.
CloserOf(t) == CASE t = "(" -> ")" [] t = "[" -> "]" [] t = "{" -> "}"

\* The nesting level after the tokens b..j-1 of c.
RECURSIVE LevelAt(_, _, _)
LevelAt(c, b, j) ==
    IF j <= b THEN 0
    ELSE LevelAt(c, b, j - 1)
         + (IF c[j - 1].t \in Openers THEN 1 ELSE IF c[j - 1].t \in Closers THEN -1 ELSE 0)

\* The positions from b on where a ',' or a closer stands at nesting level 0
\* with no such position before it.
TopLevelEnds(c, b) ==
    {j \in b..Len(c) :
        /\ c[j].t \in Closers \cup {","}
        /\ LevelAt(c, b, j) = 0
        /\ \A k \in b..(j - 1) : ~(c[k].t \in Closers \cup {","} /\ LevelAt(c, b, k) = 0)}

\* Every closer of the text closes the opener of its own kind that is open
\* innermost, and no opener is left open; `open` holds the closers awaited.
RECURSIVE Balanced(_, _, _)
Balanced(e, k, open) ==
    IF k > Len(e) THEN open = <<>>
    ELSE IF e[k].t \in Openers THEN Balanced(e, k + 1, Append(open, CloserOf(e[k].t)))
    ELSE IF e[k].t \in Closers
    THEN /\ open # <<>>
         /\ open[Len(open)] = e[k].t
         /\ Balanced(e, k + 1, SubSeq(open, 1, Len(open) - 1))
    ELSE Balanced(e, k + 1, open)

\* What extract_expr is to make of the text c read from b, its first token
\* after the blanks, when the text has its first top-level end at j.
ExprEndsAt(r, c, b, j) ==
    IF c[j].t \in {"]", "}"}
    THEN r.st = "error" /\ r.msg = "expected Spicy expression"
    ELSE /\ r.st = "ok"
         /\ r.expr = TrimToks(SubSeq(c, b, j - 1))
         /\ r.i = j
         /\ Balanced(r.expr, 1, <<>>)

\* C24: extract_expr returns the trimmed text from the cursor up to, and
\* not including, the first ',' or ')' at nesting level 0 and leaves the
\* cursor on it; the text returned is balanced in '(', '[', '{' and their
\* closers; a ']' or '}' at level 0 is a parse error; and an argument list
\* whose brackets are not closed before the end of the chunk makes
\* parseEvent fail with a parse error.
C24_ExprUpToTopLevelEnd ==
    LET b == EatSpaces(exChunk, 1) IN
    /\ exExpr.st # "none" =>
          \A j \in TopLevelEnds(exChunk, b) : ExprEndsAt(exExpr, exChunk, b, j)
    /\ (exEvent.st # "none" /\ TopLevelEnds(exChunk, b) = {}) => exEvent.st = "error"

\* ------------------------------------------------------------------------

\* The types of RootTypes that do not refer to themselves; D names the
\* record P in two of its fields.
Acyclic == RootTypes \ SelfReferential

\* C25: when createZeekType on a type that does not refer to itself has
\* returned, it has not reported the type as self-recursive, D with its two
\* fields of type P included, and after a successful projection the set of
\* the types in progress is what it was on entry: empty.
C25_InProgressRestored ==
    (visPc = "returned" /\ visRoot \in Acyclic) =>
        /\ visRet # Error(SELF_RECURSIVE)
        /\ visRet.ok => zeek_types = {}

\* ------------------------------------------------------------------------

\* The classes whose handler names the type in the call it builds.
NamedInCall == {"Enum", "Struct", "Tuple", "Unit"}

\* C26: the create_record_type or create_enum_type call that createZeekType
\* returns for a struct, unit, named tuple or enum carries the namespace and
\* the local name of the id of that type itself, whatever ids the types of
\* its fields have.
C26_CallNamesOwnType ==
    (visPc = "returned" /\ visRet.ok /\ TypeNodes[visRoot].kind \in NamedInCall) =>
        /\ visRet.val.ns = Namespace(TypeNodes[visRoot].tid)
        /\ visRet.val.local = Local(TypeNodes[visRoot].tid)

\* ------------------------------------------------------------------------

\* The inputs of the driver that are the hook module of Spicy module id.
HookInputsOf(id) == {k \in HookInputs : ModuleOf(inputs[k]) = id}

\* C27: after compile() has returned false the driver has been handed no
\* unit; after it has returned true the driver has been handed one hook
\* module for every module registered with addSpicyModule, and the init
\* module, once and last, and nothing else.
C27_UnitsHandedOver ==
    /\ compiled = "false" => inputs = <<>>
    /\ compiled = "true" =>
          /\ Len(inputs) = Cardinality(DOMAIN spicy_modules) + 1
          /\ inputs[Len(inputs)].name = <<"spicy_init">>
          /\ inputs[Len(inputs)].ext = ".hlt"
          /\ HookInputs = 1..(Len(inputs) - 1)
          /\ \A id \in DOMAIN spicy_modules : Cardinality(HookInputsOf(id)) = 1

\* compile() has returned true with two Spicy modules registered.
C27_Witness ==
    /\ compiled = "true"
    /\ Cardinality(DOMAIN spicy_modules) = 2
    /\ Len(inputs) = 3

\* ------------------------------------------------------------------------

\* The calls of loadEvtFile on bad.evt, whose third statement is a parse
\* error after a file analyzer and an event.
LoadsOfBad == {k \in 1..Len(loaded) : loaded[k].file = FileBad.path}

\* The entries of a list of analyzers with a given name.
Named(list, name) == {j \in 1..Len(list) : list[j].name = name}

HasNull(args) == \E k \in 1..Len(args) : args[k] = NULLVAL

\* A call of raise_event that may enqueue: as many arguments as the handler
\* has parameters, and no null among them.
WellFormedCall == Len(rtArgs) = rtHandler.params /\ ~HasNull(rtArgs)

\* C28: raise_event enqueues the event only when the number of arguments is
\* the number of parameters of the handler and no argument is null, and
\* then the handler with exactly the arguments; with another number of
\* arguments it throws TypeMismatch, with a null argument InvalidValue, and
\* a call that throws leaves the queue as it was.
C28_EnqueueOnlyWellFormed ==
    /\ [](rtPc = "returned" => WellFormedCall)
    /\ [](rtPc = "thrown" =>
            /\ ~WellFormedCall
            /\ rtErr = IF Len(rtArgs) # rtHandler.params THEN "TypeMismatch" ELSE "InvalidValue")
    /\ [][rtQueue' # rtQueue =>
            /\ WellFormedCall
            /\ rtPc' = "returned"
            /\ rtQueue' = Append(rtQueue, Enqueued(rtHandler, rtArgs))]_vars
    /\ [][rtPc' = "thrown" => rtQueue' = rtQueue]_vars

\* Two events have been enqueued, the second by the call that has just
\* returned, with two arguments.
C28_Witness ==
    /\ rtPc = "returned"
    /\ Len(rtArgs) = 2
    /\ Len(rtQueue) = 2
    /\ rtQueue[2] = Enqueued(rtHandler, rtArgs)

\* ------------------------------------------------------------------------

\* The fids of the entries of a stack, the oldest first.
FidsOf(stack) == [k \in 1..Len(stack) |-> stack[k].fid]

\* The files begun and not ended, in the order they were begun.
InFlight == SelectSeq(fsBegun, LAMBDA f : f \notin fsEnded)

\* The entry a call with fid argument arg is to work on, given the files
\* in flight: the one named, the newest when none is named, NoFid when
\* there is no such entry.
TargetOf(live, arg) ==
    IF arg = NoFid THEN (IF live = <<>> THEN NoFid ELSE live[Len(live)])
    ELSE IF \E k \in 1..Len(live) : live[k] = arg THEN arg
    ELSE NoFid

\* What a call after the first leaves, given the files in flight before it.
CallAsSpecified(live, call, after) ==
    IF TargetOf(live, call.arg) = NoFid
    THEN call.result = "ValueUnavailable" /\ after = live
    ELSE /\ call.result = "ok"
         /\ call.fid = TargetOf(live, call.arg)
         /\ after = IF call.op = "file_end"
                    THEN SelectSeq(live, LAMBDA f : f # call.fid)
                    ELSE live

\* C30: the stack holds the fids that file_begin returned and no file_end
\* has taken, in the order they were begun, and these fids differ from one
\* another; a file_end or another operation works on the entry its fid
\* names, on the newest entry without a fid, and file_end takes exactly
\* that entry off; with no such entry the call throws ValueUnavailable and
\* the stack stays as it is.
C30_StackHoldsFilesInFlight ==
    /\ [](FidsOf(fsStack) = InFlight)
    /\ [](\A i, j \in 1..Len(fsBegun) : i # j => fsBegun[i] # fsBegun[j])
    /\ [][(fsLast'.op \in {"file_end", "file_op"} /\ <<fsLast, fsStack>>' # <<fsLast, fsStack>>)
            => CallAsSpecified(FidsOf(fsStack), fsLast', FidsOf(fsStack'))]_vars
    /\ [][fsLast'.op = "file_begin" /\ fsLast' # fsLast
            => /\ FidsOf(fsStack') = Append(FidsOf(fsStack), fsLast'.fid)
               /\ fsBegun' = Append(fsBegun, fsLast'.fid)]_vars

\* Of three files begun the second has been ended by its fid: the first
\* and the third are left.
C30_Witness ==
    /\ Len(fsBegun) = 3
    /\ fsEnded = {fsBegun[2]}
    /\ fsLast = FileCall("file_end", fsBegun[2], "ok", fsBegun[2])
    /\ FidsOf(fsStack) = <<fsBegun[1], fsBegun[3]>>

====
